---- MODULE Spec2Model ----
(***************************************************************************)
(* Stealth Golf: the ball physics (Ball), the guards (Agent) and the       *)
(* geometry kernel (common/geometry.py) of the three game variants         *)
(*   "pygame"    src/pygame_stealthgolf.py                                 *)
(*   "loadlevel" src/stealth_golf_kivy_loadlevel.py                        *)
(*   "fixed"     src/stealth_golf_kivy_loadlevel_fixed.py                  *)
(*                                                                         *)
(* Numbers.  The program computes in floats; the model computes in fixed   *)
(* point.  A length, position or velocity v is the integer round(v * S);   *)
(* a dimensionless factor f (unit vector component, friction, cosine) is   *)
(* the integer round(f * U); a time is a whole number of sixtieths of a    *)
(* second (the clock period of the games is 1/60 s).  Every product and    *)
(* quotient is rounded to the nearest integer, ties away from zero.        *)
(* The segment parameters t and u of seg_intersect are kept as exact       *)
(* fractions tn/den and un/den.                                            *)
(***************************************************************************)
EXTENDS Integers, Sequences, FiniteSets, TLC

\* resolution of lengths: fixed-point units per world unit
S == 10
\* resolution of dimensionless factors: units per 1.0
U == 1000

---------------------------------------------------------------------------
(* Arithmetic *)

Abs(a) == IF a < 0 THEN -a ELSE a

Sgn(a) == IF a < 0 THEN -1 ELSE IF a > 0 THEN 1 ELSE 0

Min2(a, b) == IF a < b THEN a ELSE b

Max2(a, b) == IF a > b THEN a ELSE b

\* a / b rounded to the nearest integer, ties away from zero (b > 0)
RoundDiv(a, b) == Sgn(a) * ((2 * Abs(a) + b) \div (2 * b))

\* a * f for a factor f in units of 1/U
MulU(a, f) == RoundDiv(a * f, U)

RECURSIVE SqrtSearch(_, _, _)
\* the largest k in lo..hi with k * k <= n
SqrtSearch(n, lo, hi) ==
    IF lo >= hi THEN lo
    ELSE LET mid == (lo + hi + 1) \div 2
         IN  IF mid * mid <= n THEN SqrtSearch(n, mid, hi)
             ELSE SqrtSearch(n, lo, mid - 1)

\* floor of the square root of n (0 <= n < 2^31)
FloorSqrt(n) == SqrtSearch(n, 0, Min2(n, 46340))

\* square root of n rounded to the nearest integer
Sqrt(n) ==
    LET f == FloorSqrt(n)
    IN  IF n - f * f > f THEN f + 1 ELSE f

---------------------------------------------------------------------------
(* common/geometry.py *)

clamp(v, lo, hi) == IF v < lo THEN lo ELSE IF v > hi THEN hi ELSE v

length(vx, vy) == Sqrt(vx * vx + vy * vy)

\* v / sqrt(d2) in units of 1/U for a component v of a vector of squared
\* length d2 > 0; the root is taken at a hundred or ten times the
\* resolution of the grid where 32 bits allow it, so that the quotient is
\* right to the last digit as the float quotient is
UnitDiv(v, d2) ==
    IF d2 <= 200000 THEN RoundDiv(v * U * 100, Sqrt(d2 * 10000))
    ELSE IF d2 <= 20000000 THEN RoundDiv(v * U * 10, Sqrt(d2 * 100))
    ELSE RoundDiv(v * U, Sqrt(d2))

\* the unit vector in units of 1/U, or <<0, 0>> for a zero-length vector
normalize(vx, vy) ==
    LET d2 == vx * vx + vy * vy
    IN  IF d2 = 0 THEN <<0, 0>>
        ELSE <<UnitDiv(vx, d2), UnitDiv(vy, d2)>>

\* seg_intersect that takes only crossings strictly inside both segments
seg_intersect_OpenEnds(p1, p2, p3, p4) ==
    LET x1 == p1[1]  y1 == p1[2]
        x2 == p2[1]  y2 == p2[2]
        x3 == p3[1]  y3 == p3[2]
        x4 == p4[1]  y4 == p4[2]
        den == (x1 - x2) * (y3 - y4) - (y1 - y2) * (x3 - x4)
        tn  == (x1 - x3) * (y3 - y4) - (y1 - y3) * (x3 - x4)
        un  == (x1 - x3) * (y1 - y2) - (y1 - y3) * (x1 - x2)
        sg  == Sgn(den)
    IN  IF den = 0 THEN [hit |-> FALSE, tn |-> 0, un |-> 0, den |-> 1]
        ELSE IF /\ 0 < sg * tn /\ sg * tn < sg * den
                /\ 0 < sg * un /\ sg * un < sg * den
             THEN [hit |-> TRUE, tn |-> sg * tn, un |-> sg * un, den |-> sg * den]
             ELSE [hit |-> FALSE, tn |-> 0, un |-> 0, den |-> 1]

\* seg_intersect(p1, p2, p3, p4): hit, and the parameters t = tn/den on
\* p1-p2 and u = un/den on p3-p4, with den made positive.  abs(den) < 1e-9
\* is den = 0 for coordinates that are multiples of 1/S.
seg_intersect(p1, p2, p3, p4) ==
    LET x1 == p1[1]  y1 == p1[2]
        x2 == p2[1]  y2 == p2[2]
        x3 == p3[1]  y3 == p3[2]
        x4 == p4[1]  y4 == p4[2]
        den == (x1 - x2) * (y3 - y4) - (y1 - y2) * (x3 - x4)
        tn  == (x1 - x3) * (y3 - y4) - (y1 - y3) * (x3 - x4)
        un  == (x1 - x3) * (y1 - y2) - (y1 - y3) * (x1 - x2)
        sg  == Sgn(den)
    IN  IF den = 0 THEN [hit |-> FALSE, tn |-> 0, un |-> 0, den |-> 1]
        ELSE IF /\ 0 <= sg * tn /\ sg * tn <= sg * den
                /\ 0 <= sg * un /\ sg * un <= sg * den
             THEN [hit |-> TRUE, tn |-> sg * tn, un |-> sg * un, den |-> sg * den]
             ELSE [hit |-> FALSE, tn |-> 0, un |-> 0, den |-> 1]

\* the point (ix, iy) that seg_intersect returns with result h, as the
\* numerators of ix = x1 + t * (x2 - x1), iy = y1 + t * (y2 - y1) over h.den;
\* (0, 0) when there is no hit
seg_point(p1, p2, h) ==
    IF h.hit
    THEN <<p1[1] * h.den + h.tn * (p2[1] - p1[1]),
           p1[2] * h.den + h.tn * (p2[2] - p1[2])>>
    ELSE <<0, 0>>

\* the four edges of a rectangle <<rx, ry, rw, rh>>, in the order of the code
RectEdges(w) ==
    LET rx == w[1]  ry == w[2]  rw == w[3]  rh == w[4]
    IN  << << <<rx, ry>>, <<rx + rw, ry>> >>,
           << <<rx + rw, ry>>, <<rx + rw, ry + rh>> >>,
           << <<rx + rw, ry + rh>>, <<rx, ry + rh>> >>,
           << <<rx, ry + rh>>, <<rx, ry>> >> >>

\* InsideParam with the far end included and no margin: 0 < t <= 1
InsideParam_FarEndClosed(tn, den) == tn > 0 /\ tn <= den

\* InsideParam with the near end included: 0 <= t < 1 - 1e-6
InsideParam_NearEndClosed(tn, den) == tn >= 0 /\ (den - tn) > (den \div 1000000)

\* 0 < t < 1 - 1e-6 for t = tn/den, den > 0:
\* t < 1 - 1e-6  <=>  (den - tn) * 10^6 > den  <=>  den - tn > den \div 10^6
InsideParam(tn, den) == tn > 0 /\ (den - tn) > (den \div 1000000)

los_blocked(ox, oy, tx, ty, ws) ==
    \E i \in 1..Len(ws) : \E e \in 1..4 :
        LET edge == RectEdges(ws[i])[e]
            h == seg_intersect(<<ox, oy>>, <<tx, ty>>, edge[1], edge[2])
        IN  h.hit /\ InsideParam(h.tn, h.den)

RECURSIVE Gcd(_, _)
\* greatest common divisor of two naturals
Gcd(a, b) == IF b = 0 THEN a ELSE Gcd(b, a % b)

\* a unit direction (cos, sin) is a pair of integers in units of 1/TRIG
TRIG == 10000

\* the length of the ray of ray_rect_nearest_hit
RAY_REACH == 99999

\* the far point of the ray: farx = ox + dirx * 99999, fary = oy + diry * 99999
FarPoint(ox, oy, dirx, diry) ==
    <<ox + RoundDiv(dirx * RAY_REACH, TRIG), oy + RoundDiv(diry * RAY_REACH, TRIG)>>

\* seg_intersect of the ray with one edge, t = tn/den in lowest terms
RayEdgeHit(o, far, edge) ==
    CHOOSE r \in
        { IF h.hit
          THEN [hit |-> TRUE, tn |-> h.tn \div Gcd(h.den, h.tn),
                den |-> h.den \div Gcd(h.den, h.tn)]
          ELSE [hit |-> FALSE, tn |-> 0, den |-> 1]
          : h \in {seg_intersect(o, far, edge[1], edge[2])} } : TRUE

\* ray_rect_nearest_hit(ox, oy, dirx, diry, rect): the hit with the smallest
\* t over the four edges, the first of them on a tie; hit = FALSE is None.
\* ox, oy and rect are whole world units, the point returned is
\* (x1 + t * (x2 - x1), y1 + t * (y2 - y1)) in units of 1/S.
ray_rect_nearest_hit(ox, oy, dirx, diry, rect) ==
    CHOOSE r \in UNION { UNION {
        { IF b = 0
          THEN [hit |-> FALSE, x |-> 0, y |-> 0]
          ELSE [hit |-> TRUE,
                x |-> ox * S + RoundDiv(hs[b].tn * (far[1] - ox) * S, hs[b].den),
                y |-> oy * S + RoundDiv(hs[b].tn * (far[2] - oy) * S, hs[b].den)]
          : b \in { IF \E e \in 1..4 : hs[e].hit
                    THEN CHOOSE e \in 1..4 :
                             /\ hs[e].hit
                             /\ \A f \in 1..4 : hs[f].hit =>
                                    \/ hs[e].tn * hs[f].den < hs[f].tn * hs[e].den
                                    \/ /\ hs[e].tn * hs[f].den = hs[f].tn * hs[e].den
                                       /\ e <= f
                    ELSE 0 } }
        : hs \in { [e \in 1..4 |->
                      RayEdgeHit(<<ox, oy>>, far, RectEdges(rect)[e])] } }
        : far \in {FarPoint(ox, oy, dirx, diry)} } : TRUE

---------------------------------------------------------------------------
(* Ball *)

\* Ball.__init__(x, y, r): at rest, no smoke
Ball(x, y, r) ==
    [x |-> x, y |-> y, vx |-> 0, vy |-> 0, r |-> r,
     smoke_timer |-> 0, in_motion |-> FALSE]

\* apply_impulse that leaves in_motion alone
apply_impulse_NoFlag(b, ix, iy, v) ==
    [b EXCEPT !.vx = b.vx + ix, !.vy = b.vy + iy]

\* Ball.apply_impulse(ix, iy): the pygame Ball sets in_motion only for a
\* non-zero impulse, the two kivy Balls set it always
apply_impulse(b, ix, iy, v) ==
    [b EXCEPT !.vx = b.vx + ix, !.vy = b.vy + iy,
              !.in_motion = IF v = "pygame"
                            THEN (IF ix # 0 \/ iy # 0 THEN TRUE ELSE b.in_motion)
                            ELSE TRUE]

\* Integrate with a zero dt taken for one frame
Integrate_AtLeastOneFrame(b, dt) ==
    [b EXCEPT !.x = b.x + RoundDiv(b.vx * Max2(dt, 1), 60),
              !.y = b.y + RoundDiv(b.vy * Max2(dt, 1), 60)]

\* step 1 of Ball.update: x += vx * dt, y += vy * dt (dt in sixtieths)
Integrate(b, dt) ==
    [b EXCEPT !.x = b.x + RoundDiv(b.vx * dt, 60),
              !.y = b.y + RoundDiv(b.vy * dt, 60)]

\* the point of rectangle w closest to the ball centre
Closest(b, w) == <<clamp(b.x, w[1], w[1] + w[3]), clamp(b.y, w[2], w[2] + w[4])>>

\* squared distance from the ball centre to rectangle w
Dist2(b, w) ==
    LET c == Closest(b, w)
    IN  (b.x - c[1]) * (b.x - c[1]) + (b.y - c[2]) * (b.y - c[2])

\* the collision test of Ball.update: d2 < r*r
Collides(b, w) == Dist2(b, w) < b.r * b.r

\* the push of the zero-distance case in the kivy Balls: r along the outward
\* direction of the nearest edge, tested in the order left, right, bottom, top
MinEdgePush(b, w) ==
    LET left   == Abs(b.x - w[1])
        right  == Abs((w[1] + w[3]) - b.x)
        bottom == Abs(b.y - w[2])
        top    == Abs((w[2] + w[4]) - b.y)
        m      == Min2(Min2(left, right), Min2(bottom, top))
    IN  IF m = left THEN <<-b.r, 0>>
        ELSE IF m = right THEN <<b.r, 0>>
        ELSE IF m = bottom THEN <<0, -b.r>>
        ELSE <<0, b.r>>

\* Bounce that throws the ball back harder than it came: v -= 2.8 * vn * n
Bounce_Amplified(b, n) ==
    LET vn == RoundDiv(b.vx * n[1] + b.vy * n[2], U)
    IN  IF vn < 0
        THEN [b EXCEPT !.vx = b.vx - RoundDiv(28 * vn * n[1], 10 * U),
                       !.vy = b.vy - RoundDiv(28 * vn * n[2], 10 * U)]
        ELSE b

\* v -= 1.8 * vn * n when vn < 0, for a unit normal n in units of 1/U
Bounce(b, n) ==
    LET vn == RoundDiv(b.vx * n[1] + b.vy * n[2], U)
    IN  IF vn < 0
        THEN [b EXCEPT !.vx = b.vx - RoundDiv(18 * vn * n[1], 10 * U),
                       !.vy = b.vy - RoundDiv(18 * vn * n[2], 10 * U)]
        ELSE b

\* the body of the wall loop of the kivy Balls for one wall.  d is rounded
\* down so that d < r whenever d2 < r*r, as for the float square root.
CollideKivy(b, w) ==
    LET c  == Closest(b, w)
        dx == b.x - c[1]
        dy == b.y - c[2]
        d2 == dx * dx + dy * dy
        d  == IF d2 > 0 THEN FloorSqrt(d2) ELSE 0
        p  == IF d = 0 THEN MinEdgePush(b, w)
              ELSE LET nx == RoundDiv(dx * U, d)
                       ny == RoundDiv(dy * U, d)
                       push == b.r - d
                   IN  <<MulU(push, nx), MulU(push, ny)>>
        moved == [b EXCEPT !.x = b.x + p[1], !.y = b.y + p[2]]
    IN  IF d2 < b.r * b.r
        THEN IF d2 > 0 THEN Bounce(moved, normalize(p[1], p[2])) ELSE moved
        ELSE b

\* the body of the wall loop of the pygame Ball for one wall: the
\* zero-distance normal is the fixed (0, -1), otherwise (dx / d, dy / d),
\* a unit vector
CollidePygame(b, w) ==
    LET c  == Closest(b, w)
        dx == b.x - c[1]
        dy == b.y - c[2]
        d2 == dx * dx + dy * dy
        d  == IF d2 > 0 THEN FloorSqrt(d2) ELSE 0
        n  == IF d = 0 THEN <<0, -U>> ELSE normalize(dx, dy)
        push == IF d = 0 THEN b.r ELSE b.r - d
        moved == [b EXCEPT !.x = b.x + MulU(push, n[1]),
                           !.y = b.y + MulU(push, n[2])]
    IN  IF d2 < b.r * b.r THEN Bounce(moved, n) ELSE b

\* CollideWall with the wall ignored
CollideWall_Off(b, w, v) == b

CollideWall(b, w, v) == IF v = "pygame" THEN CollidePygame(b, w) ELSE CollideKivy(b, w)

RECURSIVE CollideFrom(_, _, _, _)
\* the wall loop from wall number i on
CollideFrom(b, ws, i, v) ==
    IF i > Len(ws) THEN b
    ELSE CollideFrom(CollideWall(b, ws[i], v), ws, i + 1, v)

\* step 2 of Ball.update: every wall once, in order
Collide(b, ws, v) == CollideFrom(b, ws, 1, v)

STOP_SPEED == 5

BASE_FRIC == 985

LOW_SPEED_THRESHOLD == 140

LOW_SPEED_DAMP_BASE == 78

LOW_SPEED_DAMP_NEAR == 92

SNAP_SPEED == 30

RECURSIVE PowU(_, _)
\* f ** e for a factor f in units of 1/U and a whole exponent e >= 1
PowU(f, e) == IF e <= 1 THEN f ELSE MulU(PowU(f, e - 1), f)

\* per_frame ** max(1.0, dt * 60.0) of the low-speed damping
LowSpeedDamp(speed, dt) ==
    LET t == Max2(0, Min2(U, U - RoundDiv(speed * U, LOW_SPEED_THRESHOLD * S)))
        per_frame == RoundDiv(LOW_SPEED_DAMP_BASE * (U - t) + LOW_SPEED_DAMP_NEAR * t, 100)
    IN  PowU(per_frame, Max2(1, dt))

\* Friction without the stop rule for speeds below 5
Friction_NoStopRule(b, dt, v) ==
    LET speed == length(b.vx, b.vy)
        rubbed == [b EXCEPT !.vx = RoundDiv(b.vx * BASE_FRIC, 1000),
                            !.vy = RoundDiv(b.vy * BASE_FRIC, 1000)]
        damp == LowSpeedDamp(speed, dt)
        damped == [rubbed EXCEPT !.vx = MulU(rubbed.vx, damp),
                                 !.vy = MulU(rubbed.vy, damp)]
    IN  IF v = "fixed" /\ speed < LOW_SPEED_THRESHOLD * S
        THEN IF length(damped.vx, damped.vy) < SNAP_SPEED * S
             THEN [damped EXCEPT !.vx = 0, !.vy = 0, !.in_motion = FALSE]
             ELSE damped
        ELSE rubbed

\* Friction whose stop rule zeroes the velocity but leaves in_motion alone
Friction_StopKeepsFlag(b, dt, v) ==
    LET speed == length(b.vx, b.vy)
        stopped == [b EXCEPT !.vx = 0, !.vy = 0]
        rubbed == [b EXCEPT !.vx = RoundDiv(b.vx * BASE_FRIC, 1000),
                            !.vy = RoundDiv(b.vy * BASE_FRIC, 1000)]
        damp == LowSpeedDamp(speed, dt)
        damped == [rubbed EXCEPT !.vx = MulU(rubbed.vx, damp),
                                 !.vy = MulU(rubbed.vy, damp)]
    IN  IF speed < STOP_SPEED * S THEN stopped
        ELSE IF v = "fixed" /\ speed < LOW_SPEED_THRESHOLD * S
             THEN IF length(damped.vx, damped.vy) < SNAP_SPEED * S
                  THEN [damped EXCEPT !.vx = 0, !.vy = 0, !.in_motion = FALSE]
                  ELSE damped
             ELSE rubbed

\* Friction whose low-speed damping never snaps the ball to rest
Friction_NoSnap(b, dt, v) ==
    LET speed == length(b.vx, b.vy)
        stopped == [b EXCEPT !.vx = 0, !.vy = 0, !.in_motion = FALSE]
        rubbed == [b EXCEPT !.vx = RoundDiv(b.vx * BASE_FRIC, 1000),
                            !.vy = RoundDiv(b.vy * BASE_FRIC, 1000)]
        damp == LowSpeedDamp(speed, dt)
        damped == [rubbed EXCEPT !.vx = MulU(rubbed.vx, damp),
                                 !.vy = MulU(rubbed.vy, damp)]
    IN  IF speed < STOP_SPEED * S THEN stopped
        ELSE IF v = "fixed" /\ speed < LOW_SPEED_THRESHOLD * S
             THEN damped
             ELSE rubbed

\* steps 3 to 5 of Ball.update: stop threshold, friction and, in the
\* "fixed" variant, the low-speed damping with its snap
Friction(b, dt, v) ==
    LET speed == length(b.vx, b.vy)
        stopped == [b EXCEPT !.vx = 0, !.vy = 0, !.in_motion = FALSE]
        rubbed == [b EXCEPT !.vx = RoundDiv(b.vx * BASE_FRIC, 1000),
                            !.vy = RoundDiv(b.vy * BASE_FRIC, 1000)]
        damp == LowSpeedDamp(speed, dt)
        damped == [rubbed EXCEPT !.vx = MulU(rubbed.vx, damp),
                                 !.vy = MulU(rubbed.vy, damp)]
    IN  IF speed < STOP_SPEED * S THEN stopped
        ELSE IF v = "fixed" /\ speed < LOW_SPEED_THRESHOLD * S
             THEN IF length(damped.vx, damped.vy) < SNAP_SPEED * S
                  THEN [damped EXCEPT !.vx = 0, !.vy = 0, !.in_motion = FALSE]
                  ELSE damped
             ELSE rubbed

\* SmokeTick without the clamp at zero
SmokeTick_NoClamp(b, dt) ==
    IF b.smoke_timer > 0
    THEN [b EXCEPT !.smoke_timer = b.smoke_timer - dt]
    ELSE b

\* step 6 of Ball.update (the kivy Balls): count the smoke timer down
SmokeTick(b, dt) ==
    IF b.smoke_timer > 0
    THEN [b EXCEPT !.smoke_timer = Max2(0, b.smoke_timer - dt)]
    ELSE b

\* Ball.update(dt, walls)
Ball_update(b, dt, ws, v) ==
    LET f == Friction(Collide(Integrate(b, dt), ws, v), dt, v)
    IN  IF v = "pygame" THEN f ELSE SmokeTick(f, dt)

---------------------------------------------------------------------------
(* Agent *)

\* chase_speed = speed * 1.35
ChaseSpeed(speed) == RoundDiv(speed * 135, 100)

\* Agent.__init__(ax, ay, bx, by, speed, fov_deg, cone_len): at A, heading
\* for B, facing B, not chasing
Agent(ax, ay, bx, by, speed, fov_deg, cone_len) ==
    [ax |-> ax, ay |-> ay, bx |-> bx, by |-> by, x |-> ax, y |-> ay,
     dir |-> 1, patrol_speed |-> speed, chase_speed |-> ChaseSpeed(speed),
     fov_deg |-> fov_deg, cone_len |-> cone_len,
     look_dirx |-> normalize(bx - ax, by - ay)[1],
     look_diry |-> normalize(bx - ax, by - ay)[2],
     chasing |-> FALSE]

\* cos(radians(fov_deg / 2) + 1e-6) in millionths, rounded down
CosFovHalfE6(fov_deg) ==
    CASE fov_deg = 55  -> 887010
      [] fov_deg = 60  -> 866024
      [] fov_deg = 90  -> 707106
      [] fov_deg = 180 -> -1
      [] fov_deg = 360 -> -1000000

\* ang_ok: the unit vector to the ball dotted with the facing, against the
\* cosine; both sides in units of 1/U, the cosine rounded down
AngOk(a, dx, dy) ==
    LET n == normalize(dx, dy)
    IN  RoundDiv(n[1] * a.look_dirx + n[2] * a.look_diry, U)
            >= ((CosFovHalfE6(a.fov_deg) * U) \div 1000000)

\* BallVisible without the smoke test
BallVisible_NoSmoke(a, b, ws) ==
    LET dx == b.x - a.x
        dy == b.y - a.y
    IN  IF length(dx, dy) <= a.cone_len
        THEN AngOk(a, dx, dy) /\ ~los_blocked(a.x, a.y, b.x, b.y, ws)
        ELSE FALSE

\* ball_visible of Agent.update
BallVisible(a, b, ws) ==
    LET hidden == b.smoke_timer > 0
        dx == b.x - a.x
        dy == b.y - a.y
    IN  IF hidden THEN FALSE
        ELSE IF length(dx, dy) <= a.cone_len
             THEN AngOk(a, dx, dy) /\ ~los_blocked(a.x, a.y, b.x, b.y, ws)
             ELSE FALSE

\* ChaseStep that faces along the raw difference vector
ChaseStep_RawFacing(a, dt, b) ==
    LET vx == b.x - a.x
        vy == b.y - a.y
        dist == length(vx, vy)
        vxn == normalize(vx, vy)[1]
        vyn == normalize(vx, vy)[2]
    IN  IF dist > 0
        THEN [a EXCEPT !.x = a.x + RoundDiv(vxn * a.chase_speed * dt, U * 60),
                       !.y = a.y + RoundDiv(vyn * a.chase_speed * dt, U * 60),
                       !.look_dirx = vx, !.look_diry = vy]
        ELSE a

\* ChaseStep that walks at the patrol speed
ChaseStep_AtPatrolSpeed(a, dt, b) ==
    LET vx == b.x - a.x
        vy == b.y - a.y
        dist == length(vx, vy)
        vxn == normalize(vx, vy)[1]
        vyn == normalize(vx, vy)[2]
    IN  IF dist > 0
        THEN [a EXCEPT !.x = a.x + RoundDiv(vxn * a.patrol_speed * dt, U * 60),
                       !.y = a.y + RoundDiv(vyn * a.patrol_speed * dt, U * 60),
                       !.look_dirx = vxn, !.look_diry = vyn]
        ELSE a

\* the chase branch of Agent.update; dist > 1e-3 is dist > 0 at resolution S
ChaseStep(a, dt, b) ==
    LET vx == b.x - a.x
        vy == b.y - a.y
        dist == length(vx, vy)
        vxn == normalize(vx, vy)[1]
        vyn == normalize(vx, vy)[2]
    IN  IF dist > 0
        THEN [a EXCEPT !.x = a.x + RoundDiv(vxn * a.chase_speed * dt, U * 60),
                       !.y = a.y + RoundDiv(vyn * a.chase_speed * dt, U * 60),
                       !.look_dirx = vxn, !.look_diry = vyn]
        ELSE a

\* PatrolStep that walks a full step past the endpoint instead of snapping
PatrolStep_Overshoot(a, dt) ==
    LET tx == IF a.dir > 0 THEN a.bx ELSE a.ax
        ty == IF a.dir > 0 THEN a.by ELSE a.ay
        vx == tx - a.x
        vy == ty - a.y
        dist == length(vx, vy)
        step == RoundDiv(a.patrol_speed * dt, 60)
        look == IF -a.dir > 0 THEN normalize(a.bx - a.ax, a.by - a.ay)
                ELSE normalize(a.ax - a.bx, a.ay - a.by)
        vxn == IF dist # 0 THEN normalize(vx, vy)[1] ELSE 0
        vyn == IF dist # 0 THEN normalize(vx, vy)[2] ELSE 0
    IN  IF dist <= step
        THEN [a EXCEPT !.x = a.x + MulU(step, vxn), !.y = a.y + MulU(step, vyn),
                       !.dir = -a.dir,
                       !.look_dirx = look[1], !.look_diry = look[2]]
        ELSE [a EXCEPT !.x = a.x + MulU(step, vxn), !.y = a.y + MulU(step, vyn),
                       !.look_dirx = vxn, !.look_diry = vyn]

\* the patrol branch of Agent.update
PatrolStep(a, dt) ==
    LET tx == IF a.dir > 0 THEN a.bx ELSE a.ax
        ty == IF a.dir > 0 THEN a.by ELSE a.ay
        vx == tx - a.x
        vy == ty - a.y
        dist == length(vx, vy)
        step == RoundDiv(a.patrol_speed * dt, 60)
        look == IF -a.dir > 0 THEN normalize(a.bx - a.ax, a.by - a.ay)
                ELSE normalize(a.ax - a.bx, a.ay - a.by)
        vxn == IF dist # 0 THEN normalize(vx, vy)[1] ELSE 0
        vyn == IF dist # 0 THEN normalize(vx, vy)[2] ELSE 0
    IN  IF dist <= step
        THEN [a EXCEPT !.x = tx, !.y = ty, !.dir = -a.dir,
                       !.look_dirx = look[1], !.look_diry = look[2]]
        ELSE [a EXCEPT !.x = a.x + MulU(step, vxn), !.y = a.y + MulU(step, vyn),
                       !.look_dirx = vxn, !.look_diry = vyn]

\* Agent_update that keeps chasing once it has seen the ball
Agent_update_Sticky(a, dt, b, ws) ==
    LET seen == [a EXCEPT !.chasing = a.chasing \/ BallVisible(a, b, ws)]
    IN  IF seen.chasing THEN ChaseStep(seen, dt, b) ELSE PatrolStep(seen, dt)

\* Agent.update(dt, ball, walls): the agent after the call
Agent_update(a, dt, b, ws) ==
    LET seen == [a EXCEPT !.chasing = BallVisible(a, b, ws)]
    IN  IF seen.chasing THEN ChaseStep(seen, dt, b) ELSE PatrolStep(seen, dt)

\* cos(k * 60/56 degrees), k = 0..28, in units of 1/TRIG
Cos56 ==
    <<10000, 9998, 9993, 9984, 9972, 9956, 9937, 9914,
       9888, 9859, 9826, 9789, 9749, 9706, 9659, 9609,
       9556, 9499, 9439, 9375, 9309, 9239, 9166, 9089,
       9010, 8927, 8841, 8752, 8660>>

\* sin(k * 60/56 degrees), k = 0..28, in units of 1/TRIG
Sin56 ==
    <<0, 187, 374, 561, 747, 934, 1120, 1305,
       1490, 1675, 1859, 2043, 2225, 2407, 2588, 2768,
       2948, 3126, 3303, 3479, 3653, 3827, 3999, 4170,
       4339, 4507, 4673, 4837, 5000>>

\* cos(k * 60/64 degrees), k = 0..32, in units of 1/TRIG
Cos64 ==
    <<10000, 9999, 9995, 9988, 9979, 9967, 9952, 9934,
       9914, 9892, 9866, 9838, 9808, 9775, 9739, 9700,
       9659, 9616, 9569, 9521, 9469, 9415, 9359, 9300,
       9239, 9175, 9109, 9040, 8969, 8895, 8819, 8741,
       8660>>

\* sin(k * 60/64 degrees), k = 0..32, in units of 1/TRIG
Sin64 ==
    <<0, 164, 327, 491, 654, 817, 980, 1143,
       1305, 1467, 1629, 1790, 1951, 2111, 2271, 2430,
       2588, 2746, 2903, 3059, 3214, 3369, 3523, 3675,
       3827, 3977, 4127, 4276, 4423, 4569, 4714, 4858,
       5000>>

\* Agent.ray_steps: 64 in the "loadlevel" variant, 56 in the "fixed" one
ray_steps(v) == IF v = "loadlevel" THEN 64 ELSE 56

\* (cos(ang), sin(ang)) of ray i, ang = start_ang + (end_ang - start_ang) * i / ray_steps
\* = base_ang + (ray_steps/2 - i) * fov / ray_steps, for fov = 60 degrees and
\* base_ang = atan2(look_diry, look_dirx) (0 for a zero facing), by the
\* addition formulas; in units of 1/TRIG
RayDir(a, v, i) ==
    LET rs == ray_steps(v)
        k  == (rs \div 2) - i
        c  == IF rs = 56 THEN Cos56[Abs(k) + 1] ELSE Cos64[Abs(k) + 1]
        sn == Sgn(k) * (IF rs = 56 THEN Sin56[Abs(k) + 1] ELSE Sin64[Abs(k) + 1])
        lx == IF a.look_dirx = 0 /\ a.look_diry = 0 THEN U ELSE a.look_dirx
        ly == a.look_diry
    IN  <<RoundDiv(lx * c - ly * sn, U), RoundDiv(ly * c + lx * sn, U)>>

\* squared distance, in units of 1/S, from the agent (whole world units) to
\* a point p given in units of 1/S
ConeD2(a, p) ==
    (p[1] - a.x * S) * (p[1] - a.x * S) + (p[2] - a.y * S) * (p[2] - a.y * S)

\* the full-length endpoint (tx, ty) of ray i, in units of 1/S
RayTip(a, v, i) ==
    LET d == RayDir(a, v, i)
    IN  <<a.x * S + RoundDiv(d[1] * a.cone_len * S, TRIG),
          a.y * S + RoundDiv(d[2] * a.cone_len * S, TRIG)>>

\* the body of the loop of compute_flashlight_polygon for ray i: the nearest
\* hit over the walls (the first of them on a tie), or the full-length
\* endpoint when there is no hit or the hit is farther than cone_len
PolygonPoint(a, ws, v, i) ==
    CHOOSE p \in UNION { UNION { UNION {
        { IF n # 0 /\ d2[n] <= (a.cone_len * S) * (a.cone_len * S)
          THEN <<hs[n].x, hs[n].y>>
          ELSE tip
          : n \in { IF \E j \in 1..Len(ws) : hs[j].hit
                    THEN CHOOSE j \in 1..Len(ws) :
                             /\ hs[j].hit
                             /\ \A m \in 1..Len(ws) : hs[m].hit =>
                                    (d2[j] < d2[m] \/ (d2[j] = d2[m] /\ j <= m))
                    ELSE 0 },
            tip \in {RayTip(a, v, i)} }
        : d2 \in { [j \in 1..Len(ws) |-> ConeD2(a, <<hs[j].x, hs[j].y>>)] } }
        : hs \in { [j \in 1..Len(ws) |->
                      ray_rect_nearest_hit(a.x, a.y, d[1], d[2], ws[j])] } }
        : d \in {RayDir(a, v, i)} } : TRUE

\* compute_flashlight_polygon that sweeps ray_steps angles only
compute_flashlight_polygon_NoLastRay(a, ws, v) ==
    [i \in 1..ray_steps(v) |-> PolygonPoint(a, ws, v, i - 1)]

\* Agent.compute_flashlight_polygon(walls), for an agent of fov 60 degrees
\* placed on whole world units; the points are in units of 1/S
compute_flashlight_polygon(a, ws, v) ==
    [i \in 1..(ray_steps(v) + 1) |-> PolygonPoint(a, ws, v, i - 1)]

CATCH_MARGIN == 10

\* the value Agent.update returns: the catch condition after the move
Caught(a, b) == length(b.x - a.x, b.y - a.y) <= b.r + CATCH_MARGIN * S

\* Agent.update with the catch condition taken before the agent moves
Agent_call_CaughtBeforeMove(a, dt, b, ws) ==
    [agent |-> Agent_update(a, dt, b, ws), ball |-> b, walls |-> ws,
     caught |-> Caught(a, b)]

\* Agent.update in which an agent that catches the ball carries it along
Agent_call_GrabsBall(a, dt, b, ws) ==
    LET a1 == Agent_update(a, dt, b, ws)
    IN  [agent |-> a1,
         ball |-> IF Caught(a1, b)
                  THEN [b EXCEPT !.x = a1.x, !.y = a1.y] ELSE b,
         walls |-> ws, caught |-> Caught(a1, b)]

\* the whole effect of one call a.update(dt, ball, walls): the agent, the
\* ball and the wall set after it, and the value it returns; the method
\* assigns to fields of self only
Agent_call(a, dt, b, ws) ==
    CHOOSE eff \in
        { [agent |-> a1, ball |-> b, walls |-> ws, caught |-> Caught(a1, b)] :
              a1 \in {Agent_update(a, dt, b, ws)} } : TRUE

\* what _reset_to_start does to one agent
ResetAgent(a) ==
    [a EXCEPT !.x = a.ax, !.y = a.ay, !.dir = 1, !.chasing = FALSE,
              !.look_dirx = normalize(a.bx - a.ax, a.by - a.ay)[1],
              !.look_diry = normalize(a.bx - a.ax, a.by - a.ay)[2]]

---------------------------------------------------------------------------
(* State *)

VARIABLES
    variant,    \* which program runs: "pygame", "loadlevel" or "fixed"
    walls,      \* the wall set handed to update: a sequence of <<x, y, w, h>>
    ball,       \* the Ball object
    agent,      \* the Agent object
    last,       \* the last call: its name, arguments and the objects before it
    ticks,      \* number of update calls so far
    shots,      \* number of environment events so far (impulses, ball moves)
    game        \* the StealthGolf widget: start position, flags, agent list

vars == <<variant, walls, ball, agent, last, ticks, shots, game>>

Variants == {"pygame", "loadlevel", "fixed"}

\* number of update calls explored in the call-sequence specifications
MaxTicks == 4

\* number of impulses explored
MaxShots == 1

\* frame times handed to update, in sixtieths of a second: a zero-length
\* tick, the clock period 1/60 s, and 0.1 s (src/test_door_hacking.py:44)
DtSet == {0, 1, 6}

\* the ball radius of the scenarios, in world units
TestRadius == 10

NoCall == [op |-> "none", dt |-> 0, ix |-> 0, iy |-> 0,
           ball |-> Ball(0, 0, 0), mid |-> Ball(0, 0, 0), col |-> Ball(0, 0, 0),
           agent |-> Agent(0, 0, 0, 0, 0, 55, 0), caught |-> FALSE,
           fwd |-> FALSE, bwd |-> FALSE, pts |-> << >>, ray |-> 0, reach |-> 0,
           seg |-> [hit |-> FALSE, tn |-> 0, un |-> 0, den |-> 1], at |-> <<0, 0>>]

\* the widget's fields before a level is loaded
NoGame == [start |-> <<0, 0>>, caught |-> FALSE, win |-> FALSE,
           drop_timer |-> 0, agents |-> << >>, hole |-> <<0, 0, 0>>,
           aiming |-> FALSE, drag |-> <<0, 0>>, smoke_mode |-> FALSE]

---------------------------------------------------------------------------
(* The Ball under any sequence of calls *)

\* one square wall, and two walls meeting in a corner
BallWallSets ==
    { << <<0, 0, 100 * S, 100 * S>> >>,
      << <<0, 0, 100 * S, 20 * S>>, <<0, 0, 20 * S, 100 * S>> >> }

\* start positions: clear of the wall, near its top edge, inside it
BallStarts ==
    { <<50 * S, 150 * S>>, <<50 * S, 115 * S>>, <<50 * S, 80 * S>>,
      <<30 * S, 27 * S>> }

\* impulses, in world units per second
Impulses ==
    { <<0, 0>>, <<0, -3 * S>>, <<0, -50 * S>>, <<0, -1200 * S>>,
      <<-90 * S, -120 * S>>, <<60 * S, 0>> }

InitBall ==
    /\ variant \in Variants
    /\ walls \in BallWallSets
    /\ \E p \in BallStarts : ball = Ball(p[1], p[2], TestRadius * S)
    /\ agent = NoCall.agent
    /\ last = NoCall
    /\ ticks = 0
    /\ shots = 0
    /\ game = NoGame

\* a call of Ball.apply_impulse(ix, iy)
DoImpulse(ix, iy) ==
    /\ shots < MaxShots
    /\ ball' = apply_impulse(ball, ix, iy, variant)
    /\ last' = [NoCall EXCEPT !.op = "apply_impulse", !.ix = ix, !.iy = iy,
                              !.ball = ball]
    /\ shots' = shots + 1
    /\ UNCHANGED <<variant, walls, agent, ticks, game>>

\* a call of Ball.update(dt, walls)
DoBallUpdate(dt) ==
    /\ ticks < MaxTicks
    /\ ball' = Ball_update(ball, dt, walls, variant)
    /\ last' = [NoCall EXCEPT !.op = "ball_update", !.dt = dt, !.ball = ball,
                              !.mid = Integrate(ball, dt),
                              !.col = Collide(Integrate(ball, dt), walls, variant)]
    /\ ticks' = ticks + 1
    /\ UNCHANGED <<variant, walls, agent, shots, game>>

NextBall ==
    \/ \E i \in Impulses : DoImpulse(i[1], i[2])
    \/ \E dt \in DtSet : DoBallUpdate(dt)

SpecBall == InitBall /\ [][NextBall]_vars

---------------------------------------------------------------------------
(* Claims about the Ball *)

\* the ball overlaps none of the walls
NoOverlap(b, ws) == \A i \in 1..Len(ws) : ~Collides(b, ws[i])

\* the call just made
JustImpulse == last.op = "apply_impulse"

JustBallUpdate == last.op = "ball_update"

\* C4: apply_impulse(ix, iy) adds (ix, iy) to the velocity and sets in_motion
\* exactly when ix or iy is non-zero; an impulse of (0, 0) leaves in_motion
\* as it was, in every variant.
C4_ImpulseMovesIffNonZero ==
    JustImpulse =>
        /\ ball.vx = last.ball.vx + last.ix
        /\ ball.vy = last.ball.vy + last.iy
        /\ ball.in_motion = IF last.ix # 0 \/ last.iy # 0 THEN TRUE
                            ELSE last.ball.in_motion

\* the normal of the collision of ball b with wall w: from the closest point
\* to the centre, or for a centre inside the rectangle the direction of the
\* push (nearest edge in the kivy Balls, (0, -1) in the pygame Ball)
ContactNormal(b, w, v) ==
    LET c == Closest(b, w)
    IN  IF Dist2(b, w) > 0 THEN normalize(b.x - c[1], b.y - c[2])
        ELSE IF v = "pygame" THEN <<0, -U>>
        ELSE normalize(MinEdgePush(b, w)[1], MinEdgePush(b, w)[2])

\* rounding allowance for a velocity of the size of b's: two units plus 1%
VelTol(b) == 2 + (Abs(b.vx) + Abs(b.vy)) \div 100

\* C5: with a single wall, when the collision step detects a collision and
\* the velocity component vn along the collision normal is negative, the
\* step leaves the normal component at -0.8 * vn and the tangential component
\* unchanged; when vn >= 0 it leaves the velocity unchanged.
C5_Rebound ==
    (JustBallUpdate /\ Len(walls) = 1 /\ Collides(last.mid, walls[1])) =>
        LET n   == ContactNormal(last.mid, walls[1], variant)
            vn0 == last.mid.vx * n[1] + last.mid.vy * n[2]
            vt0 == last.mid.vx * n[2] - last.mid.vy * n[1]
            vn1 == last.col.vx * n[1] + last.col.vy * n[2]
            vt1 == last.col.vx * n[2] - last.col.vy * n[1]
            tol == VelTol(last.mid)
        IN  IF vn0 < 0
            THEN /\ vn1 >= 0
                 /\ Abs(RoundDiv(vn1, U) + RoundDiv(8 * vn0, 10 * U)) <= tol
                 /\ Abs(RoundDiv(vt1 - vt0, U)) <= tol
            ELSE last.col.vx = last.mid.vx /\ last.col.vy = last.mid.vy

\* the four distances from the centre of b to the edges of w
EdgeDepths(b, w) ==
    [left |-> b.x - w[1], right |-> (w[1] + w[3]) - b.x,
     bottom |-> b.y - w[2], top |-> (w[2] + w[4]) - b.y]

\* the smallest of the four
MinDepth(b, w) ==
    LET e == EdgeDepths(b, w)
    IN  Min2(Min2(e.left, e.right), Min2(e.bottom, e.top))

\* the centre of b lies inside w, every edge farther than r away
DeepInside(b, w) == MinDepth(b, w) > b.r

\* b lies outside w by at least r beyond an edge that was nearest for b0
OutsideByRadius(b, b0, w) ==
    LET e == EdgeDepths(b0, w)
        m == MinDepth(b0, w)
    IN  \/ e.left = m /\ b.x <= w[1] - b.r
        \/ e.right = m /\ b.x >= w[1] + w[3] + b.r
        \/ e.bottom = m /\ b.y <= w[2] - b.r
        \/ e.top = m /\ b.y >= w[2] + w[4] + b.r

\* C6: a ball at rest whose centre is inside a wall by more than r lies,
\* after one update, outside the rectangle by at least r on the axis of
\* least penetration.
C6_PushedClearOfWall ==
    (/\ JustBallUpdate /\ Len(walls) = 1
     /\ last.ball.vx = 0 /\ last.ball.vy = 0
     /\ DeepInside(last.ball, walls[1]))
        => OutsideByRadius(ball, last.ball, walls[1])

\* ball b is clear of wall w: the distance from its centre to the rectangle
\* is at least r, to one step of the grid
ClearOf(b, w) == Dist2(b, w) >= (b.r - 1) * (b.r - 1)

\* C13: whenever the collision step of Ball.update detects a collision with
\* a wall (d2 < r*r), the ball no longer penetrates that wall right after the
\* correction: the distance from its centre to the rectangle is >= r.
C13_CorrectionRemovesPenetration ==
    (JustBallUpdate /\ Len(walls) = 1 /\ Collides(last.mid, walls[1]))
        => ClearOf(last.col, walls[1])

\* the velocity after integration and collisions, times 0.985
Rubbed(b) == <<RoundDiv(b.vx * BASE_FRIC, 1000), RoundDiv(b.vy * BASE_FRIC, 1000)>>

\* C14: after integration and collisions, a speed below 5 sets the velocity
\* to (0, 0) and in_motion to false; otherwise the velocity is multiplied by
\* 0.985 and in_motion is left as it was, in every variant.
C14_StopThreshold ==
    JustBallUpdate =>
        LET speed == length(last.col.vx, last.col.vy)
        IN  IF speed < STOP_SPEED * S
            THEN ball.vx = 0 /\ ball.vy = 0 /\ ~ball.in_motion
            ELSE /\ <<ball.vx, ball.vy>> = Rubbed(last.col)
                 /\ ball.in_motion = last.col.in_motion

\* C14 as amended: a speed below 5 stops the ball.  Otherwise the velocity
\* is multiplied by 0.985 and in_motion is left as it was, except that the
\* "fixed" variant, for a speed below 140, damps the velocity further (by at
\* most the factor 0.92) and stops the ball when that leaves a speed below
\* 30.  After any update a ball with zero velocity is not in motion.
C14_StopThresholdAmended ==
    JustBallUpdate =>
        LET speed == length(last.col.vx, last.col.vy)
            r == Rubbed(last.col)
            after == length(ball.vx, ball.vy)
        IN  /\ speed < STOP_SPEED * S
                => (ball.vx = 0 /\ ball.vy = 0 /\ ~ball.in_motion)
            /\ (speed >= STOP_SPEED * S
                   /\ (variant # "fixed" \/ speed >= LOW_SPEED_THRESHOLD * S))
                => /\ <<ball.vx, ball.vy>> = r
                   /\ ball.in_motion = last.col.in_motion
            /\ (speed >= STOP_SPEED * S
                   /\ variant = "fixed" /\ speed < LOW_SPEED_THRESHOLD * S)
                => \/ ball.vx = 0 /\ ball.vy = 0 /\ ~ball.in_motion
                   \/ /\ after >= SNAP_SPEED * S
                      /\ after <= MulU(length(r[1], r[2]), 10 * LOW_SPEED_DAMP_NEAR) + 1
                      /\ ball.in_motion = last.col.in_motion
            /\ (ball.vx = 0 /\ ball.vy = 0) => ~ball.in_motion

\* a ball of the "fixed" variant slower than 140 that is damped and keeps
\* moving
C14_Witness ==
    /\ JustBallUpdate /\ variant = "fixed"
    /\ length(last.col.vx, last.col.vy) >= STOP_SPEED * S
    /\ length(last.col.vx, last.col.vy) < LOW_SPEED_THRESHOLD * S
    /\ ball.in_motion /\ <<ball.vx, ball.vy>> # Rubbed(last.col)
    /\ length(ball.vx, ball.vy) >= SNAP_SPEED * S

\* C21: in the "fixed" variant, a speed after collisions of at least 5 and
\* below 140 gets the low-speed damping on top of the friction 0.985, and a
\* resulting speed below 30 stops the ball (velocity (0, 0), in_motion
\* false); so after any update the speed is 0 or at least 30, and a speed of
\* at least 140 gets the friction 0.985 only.
C21_LowSpeedSnap ==
    (JustBallUpdate /\ variant = "fixed") =>
        LET speed == length(last.col.vx, last.col.vy)
            r == Rubbed(last.col)
            damp == LowSpeedDamp(speed, last.dt)
            d == <<MulU(r[1], damp), MulU(r[2], damp)>>
            after == length(ball.vx, ball.vy)
        IN  /\ (speed >= STOP_SPEED * S /\ speed < LOW_SPEED_THRESHOLD * S)
                => IF length(d[1], d[2]) < SNAP_SPEED * S
                   THEN ball.vx = 0 /\ ball.vy = 0 /\ ~ball.in_motion
                   ELSE <<ball.vx, ball.vy>> = d /\ damp < U
            /\ (ball.vx = 0 /\ ball.vy = 0) \/ after >= SNAP_SPEED * S
            /\ speed >= LOW_SPEED_THRESHOLD * S => <<ball.vx, ball.vy>> = r

\* a moving ball of the "fixed" variant that the damping brings below 30 and
\* the snap stops
C21_Witness ==
    /\ JustBallUpdate /\ variant = "fixed"
    /\ length(last.col.vx, last.col.vy) >= SNAP_SPEED * S
    /\ length(last.col.vx, last.col.vy) < LOW_SPEED_THRESHOLD * S
    /\ last.col.in_motion
    /\ ball.vx = 0 /\ ball.vy = 0 /\ ~ball.in_motion

\* C22: in the "fixed" variant the per-frame low-speed damping factor is
\* non-decreasing in the speed over [0, 140): it is 0.78 for a very slow ball
\* and 0.92 near the threshold, so a slower ball is never damped less than a
\* faster one.
C22_DampingBlend ==
    (JustBallUpdate /\ variant = "fixed") =>
        LET speed == length(last.col.vx, last.col.vy)
        IN  (speed >= STOP_SPEED * S /\ speed < LOW_SPEED_THRESHOLD * S) =>
                \A slower \in 0..speed :
                    LowSpeedDamp(slower, 1) <= LowSpeedDamp(speed, 1)

\* C28: Ball.update never adds energy: for every ball state, dt >= 0 and
\* wall set the speed after the update is at most the speed before it; the
\* collisions do not raise it and the friction does not raise it.  Speeds
\* are compared to the rounding of two grid steps.
C28_NoEnergyGain ==
    JustBallUpdate =>
        /\ length(last.mid.vx, last.mid.vy) = length(last.ball.vx, last.ball.vy)
        /\ length(last.col.vx, last.col.vy) <= length(last.mid.vx, last.mid.vy) + 2
        /\ length(ball.vx, ball.vy) <= length(last.col.vx, last.col.vy)
        /\ length(ball.vx, ball.vy) <= length(last.ball.vx, last.ball.vy) + 2

\* a moving ball that bounces off a wall on a slant and keeps moving
C28_Witness ==
    /\ JustBallUpdate
    /\ \E i \in 1..Len(walls) : Collides(last.mid, walls[i])
    /\ last.mid.vx # 0 /\ last.mid.vy # 0
    /\ <<last.col.vx, last.col.vy>> # <<last.mid.vx, last.mid.vy>>
    /\ ball.in_motion /\ (ball.vx # 0 \/ ball.vy # 0)

\* C19: in every variant, when a collision is detected with the ball centre
\* inside or on the rectangle (distance 0), the ball is displaced by r along
\* the outward direction of an edge at the smallest of the four distances
\* (left -> -x, right -> +x, bottom -> -y, top -> +y); no variant uses a
\* fixed direction.
C19_ZeroDistanceNormal ==
    (JustBallUpdate /\ Len(walls) = 1 /\ Dist2(last.mid, walls[1]) = 0) =>
        LET e == EdgeDepths(last.mid, walls[1])
            m == MinDepth(last.mid, walls[1])
            dx == last.col.x - last.mid.x
            dy == last.col.y - last.mid.y
            r == last.mid.r
        IN  \/ e.left = m /\ dx = -r /\ dy = 0
            \/ e.right = m /\ dx = r /\ dy = 0
            \/ e.bottom = m /\ dx = 0 /\ dy = -r
            \/ e.top = m /\ dx = 0 /\ dy = r

\* C7: update(0, walls) leaves the position unchanged and does not alter
\* in_motion, for every ball state and wall set.
C7_ZeroTickIdempotent ==
    (JustBallUpdate /\ last.dt = 0) =>
        /\ ball.x = last.ball.x /\ ball.y = last.ball.y
        /\ ball.in_motion = last.ball.in_motion

\* C7 as amended: update(0, walls) leaves the position unchanged when the
\* ball overlaps no wall; it never switches in_motion on, and switches it off
\* only by the stop rule (speed below 5, or in the "fixed" variant a speed
\* below 140 that the damping brings below 30).
C7_ZeroTickAmended ==
    (JustBallUpdate /\ last.dt = 0) =>
        LET speed == length(last.col.vx, last.col.vy)
        IN  /\ NoOverlap(last.ball, walls)
                => (ball.x = last.ball.x /\ ball.y = last.ball.y)
            /\ ball.in_motion => last.ball.in_motion
            /\ (last.ball.in_motion /\ ~ball.in_motion) =>
                   /\ ball.vx = 0 /\ ball.vy = 0
                   /\ speed < LOW_SPEED_THRESHOLD * S
                   /\ variant # "fixed" => speed < STOP_SPEED * S
            /\ speed < STOP_SPEED * S => ~ball.in_motion

\* a zero-length tick on a moving ball clear of the walls, which keeps moving
C7_Witness ==
    /\ JustBallUpdate /\ last.dt = 0
    /\ NoOverlap(last.ball, walls)
    /\ last.ball.in_motion /\ ball.in_motion
    /\ ball.vx # last.ball.vx

---------------------------------------------------------------------------
(* The Agent under any sequence of calls; the ball and the walls change    *)
(* between its updates as the rest of the game changes them                *)

KivyVariants == {"loadlevel", "fixed"}

\* Agent defaults (Agent.__init__) and the values of the level loaders
DEFAULT_SPEED == 70

DEFAULT_FOV == 55

LEVEL_FOV == 60

DEFAULT_CONE == 220

\* smoke_timer = 2.6 s set by on_touch_up, in sixtieths of a second
SMOKE_TIME == 156

\* the agents: the A=(0,0), B=(200,0) guard with the loaders' and the
\* constructor's field of view and with a half-plane one, a guard on a
\* slanted path, and a guard whose two endpoints coincide
Agents ==
    { Agent(0, 0, 200 * S, 0, DEFAULT_SPEED * S, LEVEL_FOV, DEFAULT_CONE * S),
      Agent(0, 0, 200 * S, 0, DEFAULT_SPEED * S, 180, DEFAULT_CONE * S),
      Agent(0, 0, 30 * S, 40 * S, 90 * S, DEFAULT_FOV, DEFAULT_CONE * S),
      Agent(20 * S, 0, 20 * S, 0, DEFAULT_SPEED * S, DEFAULT_FOV, DEFAULT_CONE * S) }

\* places of the ball: ahead of the guard, ahead and to the side, on the
\* guard's start, behind it, out of range, just ahead of the guard
BallSpots ==
    { <<100 * S, 5 * S>>, <<100 * S, 40 * S>>, <<0, 0>>, <<-60 * S, 0>>,
      <<400 * S, 300 * S>>, <<25 * S, 0>> }

\* no wall, and a wall across the line from the guard to the ball
AgentWallSets == { << >>, << <<40 * S, -30 * S, 20 * S, 100 * S>> >> }

\* number of update calls explored before the last agent update
MaxAgentTicks == 3

\* number of changes of ball and walls explored between agent updates
MaxEvents == 1

InitAgent ==
    /\ variant = "fixed"
    /\ walls = << >>
    /\ \E p \in BallSpots : \E t \in {0, 3} :
           /\ ball = [Ball(p[1], p[2], TestRadius * S) EXCEPT !.smoke_timer = t]
           /\ game = [NoGame EXCEPT !.start = p]
    /\ agent \in Agents
    /\ last = NoCall
    /\ ticks = 0
    /\ shots = 0

\* a call of Agent.update(dt, ball, walls)
AgentCall(dt) ==
    \E eff \in {Agent_call(agent, dt, ball, walls)} :
        /\ agent' = eff.agent
        /\ ball' = eff.ball
        /\ walls' = eff.walls
        /\ last' = [NoCall EXCEPT !.op = "agent_update", !.dt = dt, !.ball = ball,
                                  !.agent = agent, !.caught = eff.caught]
        /\ UNCHANGED <<variant, shots, game>>

\* the calls of one frame, in the order StealthGolf.update makes them:
\* ball.update(dt, walls), then a.update(dt, ball, walls)
AgentTick(dt) ==
    \E b1 \in {Ball_update(ball, dt, walls, variant)} :
    \E eff \in {Agent_call(agent, dt, b1, walls)} :
        /\ ticks < MaxAgentTicks
        /\ ticks' = ticks + 1
        /\ agent' = eff.agent
        /\ ball' = eff.ball
        /\ walls' = eff.walls
        /\ last' = [NoCall EXCEPT !.op = "agent_update", !.dt = dt, !.ball = b1,
                                  !.agent = agent, !.caught = eff.caught]
        /\ UNCHANGED <<variant, shots, game>>

\* the ball has rolled to another place
BallMoves(p) ==
    /\ shots < MaxEvents
    /\ <<ball.x, ball.y>> # p
    /\ ball' = [ball EXCEPT !.x = p[1], !.y = p[2]]
    /\ last' = [NoCall EXCEPT !.op = "ball_moves"]
    /\ shots' = shots + 1
    /\ UNCHANGED <<variant, walls, agent, ticks, game>>

\* the wall set is replaced (_apply_floor)
WallsChange(ws) ==
    /\ shots < MaxEvents
    /\ walls # ws
    /\ walls' = ws
    /\ last' = [NoCall EXCEPT !.op = "walls_change"]
    /\ shots' = shots + 1
    /\ UNCHANGED <<variant, ball, agent, ticks, game>>

\* a smoke shot: on_touch_up sets ball.smoke_timer = 2.6
SmokeOn ==
    /\ shots < MaxEvents
    /\ ball' = [ball EXCEPT !.smoke_timer = SMOKE_TIME]
    /\ last' = [NoCall EXCEPT !.op = "smoke_on"]
    /\ shots' = shots + 1
    /\ UNCHANGED <<variant, walls, agent, ticks, game>>

\* StealthGolf._reset_to_start: the ball back on the start position at
\* rest and without smoke, the flags cleared, every agent back on A
ResetToStart ==
    /\ shots < MaxEvents
    /\ ball' = [ball EXCEPT !.x = game.start[1], !.y = game.start[2],
                            !.vx = 0, !.vy = 0, !.smoke_timer = 0]
    /\ game' = [game EXCEPT !.caught = FALSE, !.win = FALSE, !.drop_timer = 0,
                            !.agents = [i \in DOMAIN game.agents |->
                                           ResetAgent(game.agents[i])]]
    /\ agent' = ResetAgent(agent)
    /\ last' = [NoCall EXCEPT !.op = "reset"]
    /\ shots' = shots + 1
    /\ UNCHANGED <<variant, walls, ticks>>

NextAgent ==
    \/ \E dt \in DtSet : AgentTick(dt)
    \/ ResetToStart
    \/ \E p \in BallSpots : BallMoves(p)
    \/ \E ws \in AgentWallSets : WallsChange(ws)
    \/ SmokeOn

SpecAgent == InitAgent /\ [][NextAgent]_vars

---------------------------------------------------------------------------
(* The guard on patrol at the clock period, with the ball where it is      *)

\* the clock period of Clock.schedule_interval(self.update, 1.0/60.0)
FixedDt == 1

InitPatrol ==
    /\ variant \in KivyVariants
    /\ walls \in AgentWallSets
    /\ \E p \in BallSpots : \E t \in {0, SMOKE_TIME} :
           ball = [Ball(p[1], p[2], TestRadius * S) EXCEPT !.smoke_timer = t]
    /\ agent \in Agents
    /\ last = NoCall
    /\ ticks = 0
    /\ shots = 0
    /\ game = NoGame

\* the clock fires: in the clocked specifications ticks is the parity of
\* the number of frames so far
ClockAdvance == ticks' = (ticks + 1) % 2

\* one frame of the clock for the guard
ClockTick == AgentCall(FixedDt) /\ ClockAdvance

\* the kivy Clock keeps calling update: frames never stop
SpecPatrol == InitPatrol /\ [][ClockTick]_vars /\ WF_ticks(ClockAdvance)

---------------------------------------------------------------------------
(* Claims about the Agent *)

JustAgentUpdate == last.op = "agent_update"

\* the endpoint agent a is walking to
PatrolTarget(a) == IF a.dir > 0 THEN <<a.bx, a.by>> ELSE <<a.ax, a.ay>>

AtA == agent.x = agent.ax /\ agent.y = agent.ay

AtB == agent.x = agent.bx /\ agent.y = agent.by

\* on a tick that flips dir the agent stands on the endpoint it was walking to
FlipAtEndpoint == agent'.dir # agent.dir => <<agent'.x, agent'.y>> = PatrolTarget(agent)

\* C1: an agent that never sees the ball cycles A -> B -> A forever at a
\* positive step: each flip of dir leaves it exactly on the endpoint it was
\* heading to, and each endpoint is reached again and again.
C1_PatrolLoop ==
    /\ [][FlipAtEndpoint]_vars
    /\ (<>agent.chasing) \/ ([]<>AtA /\ []<>AtB)

\* back on A after the turn at B, never having chased
C1_Witness ==
    /\ JustAgentUpdate /\ AtA /\ ~AtB
    /\ last.agent.dir < 0 /\ agent.dir > 0
    /\ ~last.agent.chasing /\ ~agent.chasing

\* the visibility query of the claim, on agent a, ball b and walls ws
SeenFrom(a, b, ws) ==
    /\ ~(b.smoke_timer > 0)
    /\ length(b.x - a.x, b.y - a.y) <= a.cone_len
    /\ AngOk(a, b.x - a.x, b.y - a.y)
    /\ ~los_blocked(a.x, a.y, b.x, b.y, ws)

\* C2: after every Agent.update, chasing is the visibility query on the
\* agent and ball as they were at the start of the call, whatever chasing
\* was before.
C2_NoHysteresis ==
    JustAgentUpdate => (agent.chasing <=> SeenFrom(last.agent, last.ball, walls))

\* a chasing agent stops on the tick after a wall has come between it and
\* the ball, with the ball still in range and within the angle
C2_Witness ==
    /\ JustAgentUpdate /\ last.agent.chasing /\ ~agent.chasing
    /\ ball.smoke_timer = 0
    /\ length(ball.x - last.agent.x, ball.y - last.agent.y) <= agent.cone_len
    /\ AngOk(last.agent, ball.x - last.agent.x, ball.y - last.agent.y)
    /\ los_blocked(last.agent.x, last.agent.y, ball.x, ball.y, walls)

\* C3: an Agent.update made while ball.smoke_timer > 0 ends with chasing
\* false; and while the timer is positive no agent goes from not chasing to
\* chasing.
C3_Concealment ==
    /\ [](JustAgentUpdate /\ ball.smoke_timer > 0 => ~agent.chasing)
    /\ [][(ball'.smoke_timer > 0 /\ ~agent.chasing) => ~agent'.chasing]_vars

\* a chasing agent, the ball in plain view but for the smoke, stops chasing
C3_Witness ==
    /\ JustAgentUpdate /\ ball.smoke_timer > 0
    /\ last.agent.chasing /\ ~agent.chasing
    /\ SeenFrom(last.agent, [ball EXCEPT !.smoke_timer = 0], walls)

\* C11: the value Agent.update returns is true exactly when, after the
\* agent's move of this tick, the distance from agent to ball is at most
\* ball.r + 10, in the patrol and in the chase branch alike; the call
\* changes no flag of the game.
C11_CatchCondition ==
    [][last'.op = "agent_update" =>
          /\ last'.caught <=>
                  length(ball'.x - agent'.x, ball'.y - agent'.y)
                      <= ball'.r + CATCH_MARGIN * S
          /\ game' = game]_vars

\* a chasing agent that was out of catching range before its move and
\* reports the catch after it
C11_Witness ==
    /\ JustAgentUpdate /\ last.caught /\ agent.chasing
    /\ length(last.ball.x - last.agent.x, last.ball.y - last.agent.y)
           > last.ball.r + CATCH_MARGIN * S

\* a vector in units of 1/U has length 1, to the rounding of its components
IsUnit(lx, ly) == Abs(length(lx, ly) - U) <= 2

\* C12: in every reachable agent state (after construction, after patrol and
\* chase ticks, after _reset_to_start) the facing (look_dirx, look_diry) has
\* length 1 or is (0, 0).
C12_FacingUnit ==
    \/ agent.look_dirx = 0 /\ agent.look_diry = 0
    \/ IsUnit(agent.look_dirx, agent.look_diry)

\* a chase tick has turned the agent off its patrol line
C12_Witness ==
    /\ JustAgentUpdate /\ agent.chasing
    /\ agent.look_diry # last.agent.look_diry
    /\ IsUnit(agent.look_dirx, agent.look_diry)

\* C23: on a tick where the agent is chasing and its distance to the ball is
\* positive, the agent moves chase_speed * dt along the unit vector from its
\* position to the ball, with chase_speed = 1.35 * patrol_speed (above
\* patrol_speed for a positive speed); its facing becomes that unit vector;
\* its patrol direction and endpoints are unchanged.
C23_ChaseStep ==
    (/\ JustAgentUpdate /\ agent.chasing
     /\ <<last.ball.x, last.ball.y>> # <<last.agent.x, last.agent.y>>) =>
        LET n == normalize(last.ball.x - last.agent.x, last.ball.y - last.agent.y)
            mx == agent.x - last.agent.x
            my == agent.y - last.agent.y
            step == RoundDiv(agent.chase_speed * last.dt, 60)
        IN  /\ IsUnit(n[1], n[2])
            /\ Abs(mx - MulU(step, n[1])) <= 1 /\ Abs(my - MulU(step, n[2])) <= 1
            /\ Abs(length(mx, my) - step) <= 2
            /\ <<agent.look_dirx, agent.look_diry>> = n
            /\ agent.chase_speed = RoundDiv(agent.patrol_speed * 135, 100)
            /\ agent.patrol_speed > 0 => agent.chase_speed > agent.patrol_speed
            /\ agent.dir = last.agent.dir
            /\ <<agent.ax, agent.ay, agent.bx, agent.by>>
                   = <<last.agent.ax, last.agent.ay, last.agent.bx, last.agent.by>>

\* a chasing agent that has moved toward a ball away from it, on a slant
C23_Witness ==
    /\ JustAgentUpdate /\ agent.chasing /\ last.dt > 0
    /\ last.ball.x # last.agent.x /\ last.ball.y # last.agent.y
    /\ agent.x # last.agent.x /\ agent.y # last.agent.y
    /\ agent.patrol_speed > 0

\* C10: a ball that is not concealed and lies exactly on the agent is seen,
\* whatever the field of view: Agent.update sets chasing.
C10_CoincidentSeen ==
    (/\ JustAgentUpdate /\ last.ball.smoke_timer = 0
     /\ last.ball.x = last.agent.x /\ last.ball.y = last.agent.y)
        => agent.chasing

---------------------------------------------------------------------------
(* los_blocked on given points: origin = the agent's position, target =    *)
(* the ball's position, as Agent.update calls it.  los_blocked does not    *)
(* depend on the unit of length, so the coordinates here are plain         *)
(* integers; the far point makes a crossing one unit from the origin fall  *)
(* below 1e-6 of the segment.                                              *)

GeoWall == <<0, 0, 600, 600>>

\* a wall of height zero
GeoFlat == <<0, 0, 600, 0>>

\* a wall tall enough to contain the far point
GeoTall == <<0, 0, 600, 2000000>>

GeoFar == <<300, 1100000>>

GeoPoints ==
    { <<300, -1>>, <<300, -400>>, <<300, 0>>, <<300, 300>>, <<-200, 300>>,
      <<800, 300>>, <<0, 0>>, <<600, 900>>, <<-200, -100>>, GeoFar }

GeoWallSets ==
    { << >>, <<GeoWall>>, <<GeoFlat>>, <<GeoWall, <<-200, -300, 300, 100>> >> }

\* the agent standing on p
AgentOn(p) == [NoCall.agent EXCEPT !.x = p[1], !.y = p[2]]

InitGeo ==
    /\ variant \in KivyVariants
    /\ \/ /\ walls \in GeoWallSets
          /\ \E p \in GeoPoints : agent = AgentOn(p)
          /\ \E q \in GeoPoints : ball = Ball(q[1], q[2], 0)
       \/ /\ walls = <<GeoTall>>
          /\ \E p \in {<<300, -1>>, GeoFar} : agent = AgentOn(p)
          /\ \E q \in {<<300, -1>>, GeoFar} : ball = Ball(q[1], q[2], 0)
    /\ last = NoCall
    /\ ticks = 0
    /\ shots = 0
    /\ game = NoGame

\* los_blocked from the agent to the ball, and from the ball to the agent
LosQuery ==
    /\ last.op = "none"
    /\ last' = [NoCall EXCEPT !.op = "los_blocked",
                   !.fwd = los_blocked(agent.x, agent.y, ball.x, ball.y, walls),
                   !.bwd = los_blocked(ball.x, ball.y, agent.x, agent.y, walls)]
    /\ UNCHANGED <<variant, walls, ball, agent, ticks, shots, game>>

SpecGeo == InitGeo /\ [][LosQuery]_vars

JustLos == last.op = "los_blocked"

\* C8: los_blocked(A, B, walls) = los_blocked(B, A, walls) for every pair of
\* points and every wall set.
C8_LosSymmetric == JustLos => (last.fwd <=> last.bwd)

\* some wall edge crosses the segment from (ox, oy) to (tx, ty) within 1e-6
\* of one of its ends (in the parameter t), but not at the end itself
CrossesNearEnd(ox, oy, tx, ty, ws) ==
    \E i \in 1..Len(ws) : \E e \in 1..4 :
        LET edge == RectEdges(ws[i])[e]
            h == seg_intersect(<<ox, oy>>, <<tx, ty>>, edge[1], edge[2])
        IN  /\ h.hit
            /\ \/ 0 < h.tn /\ h.tn <= (h.den \div 1000000)
               \/ h.tn < h.den /\ (h.den - h.tn) <= (h.den \div 1000000)

\* C8 as amended: los_blocked(A, B, walls) = los_blocked(B, A, walls)
\* whenever no wall edge crosses the segment within 1e-6 of an end without
\* passing through that end.
C8_LosSymmetricAwayFromEnds ==
    (JustLos /\ ~CrossesNearEnd(agent.x, agent.y, ball.x, ball.y, walls))
        => (last.fwd <=> last.bwd)

\* a segment that starts on a wall edge and is blocked further on
C8_Witness ==
    /\ JustLos /\ last.fwd /\ last.bwd
    /\ ~CrossesNearEnd(agent.x, agent.y, ball.x, ball.y, walls)
    /\ <<agent.x, agent.y>> = <<300, 0>>

\* twice the signed area of the triangle a, b, p: positive when p lies to
\* the left of the line from a to b, zero when p lies on it
Side(a, b, p) == (b[1] - a[1]) * (p[2] - a[2]) - (b[2] - a[2]) * (p[1] - a[1])

\* numbers x and y have strictly opposite signs
Opposite(x, y) == (x > 0 /\ y < 0) \/ (x < 0 /\ y > 0)

\* the sight line from o to t crosses the edge from a to b strictly after o
\* and before t: o and t lie strictly on opposite sides of the edge's line,
\* and a and b lie on opposite sides of the sight line, or on it
CrossesBetween(o, t, a, b) ==
    /\ Opposite(Side(a, b, o), Side(a, b, t))
    /\ \/ Side(o, t, a) <= 0 /\ Side(o, t, b) >= 0
       \/ Side(o, t, a) >= 0 /\ Side(o, t, b) <= 0

\* the crossing lies more than 1e-6 of the sight line short of t: the
\* distances of o and t from the edge's line are as t to 1 - t
ShortOfTarget(o, t, a, b) ==
    Abs(Side(a, b, t)) > (Abs(Side(a, b, o)) + Abs(Side(a, b, t))) \div 1000000

\* the edges of all the walls, each as a pair of end points
WallEdges(ws) ==
    { <<RectEdges(ws[i])[e][1], RectEdges(ws[i])[e][2]>> :
          i \in 1..Len(ws), e \in 1..4 }

\* point p lies on the edge from a to b
OnEdge(p, a, b) ==
    /\ Side(a, b, p) = 0
    /\ Min2(a[1], b[1]) <= p[1] /\ p[1] <= Max2(a[1], b[1])
    /\ Min2(a[2], b[2]) <= p[2] /\ p[2] <= Max2(a[2], b[2])

\* C15: los_blocked(origin, target, walls) is true exactly when the segment
\* crosses an edge of some wall at a parameter t with 0 < t < 1 - 1e-6; a
\* wall the segment only touches with one of its own ends, crossing nothing
\* in between, does not block.
C15_LosBlockedIff ==
    JustLos =>
        LET o == <<agent.x, agent.y>>
            t == <<ball.x, ball.y>>
            Blocking(a, b) == CrossesBetween(o, t, a, b) /\ ShortOfTarget(o, t, a, b)
            Between(a, b) == CrossesBetween(o, t, a, b)
        IN  /\ last.fwd <=> \E e \in WallEdges(walls) : Blocking(e[1], e[2])
            /\ ~(\E e \in WallEdges(walls) : Between(e[1], e[2])) => ~last.fwd

\* the origin stands on a wall edge, the target lies away from the wall, and
\* the sight is free
C15_Witness ==
    /\ JustLos /\ ~last.fwd
    /\ <<agent.x, agent.y>> # <<ball.x, ball.y>>
    /\ LET o == <<agent.x, agent.y>>
           Touches(a, b) == OnEdge(o, a, b)
       IN  \E e \in WallEdges(walls) : Touches(e[1], e[2])

---------------------------------------------------------------------------
(* The ball rolling at the clock period: one wall (0,0,100,100), radius    *)
(* 10, from (50,150) straight down                                         *)

RestWall == <<0, 0, 100 * S, 100 * S>>

\* downward speed of the ball, in world units per second
RestSpeed == 50

InitRest ==
    /\ variant \in Variants
    /\ walls = <<RestWall>>
    /\ ball = apply_impulse(Ball(50 * S, 150 * S, TestRadius * S), 0, -RestSpeed * S, variant)
    /\ agent = NoCall.agent
    /\ last = NoCall
    /\ ticks = 0
    /\ shots = 0
    /\ game = NoGame

\* one frame of the clock for the ball
BallClockTick ==
    /\ ball' = Ball_update(ball, FixedDt, walls, variant)
    /\ last' = [NoCall EXCEPT !.op = "ball_update", !.dt = FixedDt, !.ball = ball,
                              !.mid = Integrate(ball, FixedDt),
                              !.col = Collide(Integrate(ball, FixedDt), walls, variant)]
    /\ ClockAdvance
    /\ UNCHANGED <<variant, walls, agent, shots, game>>

SpecRest == InitRest /\ [][BallClockTick]_vars /\ WF_ticks(ClockAdvance)

AtRest == ~ball.in_motion /\ ball.vx = 0 /\ ball.vy = 0

\* C9: the ball of the scenario comes to rest on top of the wall: once it is
\* at rest, y = 100 + r.
C9_RestsOnWall == (JustBallUpdate /\ AtRest) => ball.y = (100 + TestRadius) * S

\* C9 as amended: the ball of the scenario reaches and stays in a state of
\* rest (velocity zero, in_motion false) with x = 50 and y >= 100 + r: it
\* does not end inside the wall, but nothing holds it on the wall either.
C9_RestsClearOfWall ==
    <>[](AtRest /\ ball.x = 50 * S /\ ball.y >= (100 + TestRadius) * S)

\* at rest after having bounced off the top of the wall
C9_Witness ==
    /\ JustBallUpdate /\ AtRest
    /\ ~Collides(ball, RestWall)
    /\ ball.y > (100 + TestRadius) * S /\ ball.y < 140 * S
    /\ variant = "pygame"

---------------------------------------------------------------------------
(* The smoke timer of the kivy Balls under updates of any length; frames   *)
(* of positive length never stop                                           *)

InitSmoke ==
    /\ variant \in KivyVariants
    /\ walls \in BallWallSets
    /\ \E p \in BallStarts : \E t \in {0, 3} :
           ball = [Ball(p[1], p[2], TestRadius * S) EXCEPT !.smoke_timer = t]
    /\ agent = NoCall.agent
    /\ last = NoCall
    /\ ticks = 0
    /\ shots = 0
    /\ game = NoGame

\* Ball.update(dt, walls); the clock counts the frames of positive length
SmokeBallTick(dt) ==
    /\ ball' = Ball_update(ball, dt, walls, variant)
    /\ last' = [NoCall EXCEPT !.op = "ball_update", !.dt = dt, !.ball = ball,
                              !.mid = Integrate(ball, dt),
                              !.col = Collide(Integrate(ball, dt), walls, variant)]
    /\ IF dt > 0 THEN ClockAdvance ELSE UNCHANGED ticks
    /\ UNCHANGED <<variant, walls, agent, shots, game>>

NextSmoke ==
    \/ \E dt \in DtSet : SmokeBallTick(dt)
    \/ SmokeOn

SpecSmoke == InitSmoke /\ [][NextSmoke]_vars /\ WF_ticks(ClockAdvance)

\* C16: Ball.update(dt, walls) with dt >= 0 sets smoke_timer to
\* max(0, smoke_timer - dt): the timer is never negative, never grows in an
\* update, stays 0 once 0, and after it has been set to a positive value it
\* reaches 0 after finitely many ticks of positive dt.
C16_SmokeTimer ==
    /\ [](ball.smoke_timer >= 0)
    /\ [][last'.op = "ball_update" =>
             /\ ball'.smoke_timer = Max2(0, ball.smoke_timer - last'.dt)
             /\ ball'.smoke_timer <= ball.smoke_timer
             /\ ball.smoke_timer = 0 => ball'.smoke_timer = 0]_vars
    /\ <>[](ball.smoke_timer = 0)

\* the smoke shot's timer has run out at its last tick
C16_Witness ==
    /\ JustBallUpdate /\ shots > 0
    /\ last.ball.smoke_timer > 0 /\ ball.smoke_timer = 0

---------------------------------------------------------------------------
(* A level with two agents and a hole, under StealthGolf.update            *)

\* the hole radius of the level loader
HOLE_RADIUS == 22

\* drop_timer = 0.9 s after a win, in sixtieths of a second
DROP_TIME == 54

RECURSIVE RunAgents(_, _, _, _, _, _, _, _)
\* `for a in self.agents` from position k of the given order on: every
\* agent is updated with the ball and the walls as the agents before it
\* have left them; caught is raised unless the level is won
RunAgents(as, order, k, dt, b, ws, caught, win) ==
    IF k > Len(order)
    THEN [agents |-> as, ball |-> b, walls |-> ws, caught |-> caught]
    ELSE CHOOSE r \in
             { RunAgents([as EXCEPT ![order[k]] = eff.agent], order, k + 1, dt,
                         eff.ball, eff.walls, caught \/ (eff.caught /\ ~win), win) :
                   eff \in {Agent_call(as[order[k]], dt, b, ws)} } : TRUE

\* the order of the list, and the opposite order
ListOrder(as) == [i \in 1..Len(as) |-> i]

ReverseOrder(as) == [i \in 1..Len(as) |-> Len(as) + 1 - i]

\* the agent lists of the level: the first guard with each of the others,
\* and two of the others together
AgentPairs ==
    LET first == Agent(0, 0, 200 * S, 0, DEFAULT_SPEED * S, LEVEL_FOV, DEFAULT_CONE * S)
        slanted == Agent(0, 0, 30 * S, 40 * S, 90 * S, DEFAULT_FOV, DEFAULT_CONE * S)
    IN  { <<first, a>> : a \in Agents \ {first} }
            \cup { <<slanted, a>> : a \in Agents \ {first, slanted} }

InitWorld ==
    /\ variant = "fixed"
    /\ walls \in AgentWallSets
    /\ \E p \in BallSpots :
           /\ ball = Ball(p[1], p[2], TestRadius * S)
           /\ \E pair \in AgentPairs :
                  game = [NoGame EXCEPT !.start = p, !.agents = pair,
                              !.hole = <<400 * S, 300 * S, HOLE_RADIUS * S>>]
    /\ agent = NoCall.agent
    /\ last = NoCall
    /\ ticks = 0
    /\ shots = 0

\* StealthGolf.update(dt) on a level of one floor without stairs and with no
\* level file to follow: the drop after a win counts down; otherwise the
\* ball is updated, then every agent, then the hole is tested
WorldTick(dt) ==
    \E b1 \in {Ball_update(ball, dt, walls, variant)} :
    \E run \in {RunAgents(game.agents, ListOrder(game.agents), 1, dt, b1, walls,
                          game.caught, game.win)} :
    \E inHole \in {/\ ~game.win
                    /\ length(run.ball.x - game.hole[1], run.ball.y - game.hole[2])
                           <= game.hole[3] - 2 * S} :
        /\ ticks < MaxAgentTicks
        /\ ticks' = ticks + 1
        /\ IF game.drop_timer > 0
           THEN /\ game' = [game EXCEPT !.drop_timer = Max2(0, game.drop_timer - dt)]
                /\ UNCHANGED <<ball, walls>>
           ELSE /\ ball' = IF inHole
                           THEN [run.ball EXCEPT !.vx = 0, !.vy = 0, !.in_motion = FALSE]
                           ELSE run.ball
                /\ walls' = run.walls
                /\ game' = [game EXCEPT !.agents = run.agents,
                                        !.caught = run.caught,
                                        !.win = game.win \/ inHole,
                                        !.drop_timer = IF inHole THEN DROP_TIME
                                                       ELSE game.drop_timer]
        /\ last' = [NoCall EXCEPT !.op = "world_tick", !.dt = dt, !.ball = b1]
        /\ UNCHANGED <<variant, agent, shots>>

NextWorld ==
    \/ \E dt \in DtSet : WorldTick(dt)
    \/ ResetToStart

SpecWorld == InitWorld /\ [][NextWorld]_vars

\* the fields of an agent that Agent.update may write, blanked
Constructed(a) ==
    [a EXCEPT !.x = 0, !.y = 0, !.dir = 1, !.look_dirx = 0, !.look_diry = 0,
              !.chasing = FALSE]

\* C17: Agent.update writes only its own agent's x, y, dir, facing and
\* chasing; it changes neither the ball, nor the walls, nor another agent.
\* So within a tick the agents may be updated in any order: every agent ends
\* in the same state and the caught result is the same.
C17_AgentIsolation ==
    [][(last'.op = "world_tick" /\ game.drop_timer = 0) =>
          \A dt \in {last'.dt} :
          \A b1 \in {Ball_update(ball, dt, walls, variant)} :
          \A fwd \in {RunAgents(game.agents, ListOrder(game.agents), 1, dt, b1,
                                 walls, game.caught, game.win)} :
          \A bwd \in {RunAgents(game.agents, ReverseOrder(game.agents), 1, dt, b1,
                                 walls, game.caught, game.win)} :
              /\ fwd = bwd
              /\ fwd.ball = b1 /\ fwd.walls = walls /\ walls' = walls
              /\ game'.agents = fwd.agents /\ game'.caught = fwd.caught
              /\ \A i \in DOMAIN game.agents :
                     /\ game'.agents[i] = Agent_update(game.agents[i], dt, b1, walls)
                     /\ Constructed(game'.agents[i]) = Constructed(game.agents[i])]_vars

\* a tick in which one agent chases and catches the ball while the other
\* patrols on
C17_Witness ==
    /\ last.op = "world_tick" /\ game.caught /\ ~game.win
    /\ \E i, j \in DOMAIN game.agents :
           /\ game.agents[i].chasing /\ Caught(game.agents[i], ball)
           /\ ~game.agents[j].chasing /\ ~Caught(game.agents[j], ball)

---------------------------------------------------------------------------
(* The ball after one impulse, rolling at the clock period among walls     *)

\* the wall sets of the Ball, and two walls side by side
SettleWallSets ==
    BallWallSets \cup
        { << <<0, 0, 100 * S, 100 * S>>, <<100 * S, 0, 100 * S, 100 * S>> >> }

\* the start positions of the Ball, and one inside a wall near its right edge
SettleStarts == BallStarts \cup { <<95 * S, 50 * S>> }

InitSettle ==
    /\ variant \in Variants
    /\ walls \in SettleWallSets
    /\ \E p \in SettleStarts : \E i \in Impulses :
           ball = apply_impulse(Ball(p[1], p[2], TestRadius * S), i[1], i[2], variant)
    /\ agent = NoCall.agent
    /\ last = NoCall
    /\ ticks = 0
    /\ shots = 0
    /\ game = NoGame

SpecSettle == InitSettle /\ [][BallClockTick]_vars /\ WF_ticks(ClockAdvance)

\* C18: after an impulse and with no further impulse, repeated Ball.update
\* calls at the fixed timestep bring the ball to in_motion = false with
\* velocity (0, 0) after finitely many ticks, for every wall set and in all
\* three variants.
C18_ComesToRest == <>[]AtRest

\* the tick that stops a ball which has rolled and lost its speed
C18_Witness ==
    /\ JustBallUpdate /\ AtRest
    /\ last.ball.in_motion /\ (last.ball.vx # 0 \/ last.ball.vy # 0)
    /\ length(last.ball.vx, last.ball.vy) >= STOP_SPEED * S

\* C20: a ball that overlaps several walls at once may still overlap a wall
\* after one update, but under repeated updates with no new impulse it
\* eventually overlaps no wall and its position no longer changes.
C20_MultiWallConvergence ==
    <>[](/\ NoOverlap(ball, walls)
         /\ JustBallUpdate => (ball.x = last.ball.x /\ ball.y = last.ball.y))

---------------------------------------------------------------------------
(* The light cone of an agent and its line of sight along the cone's rays. *)
(* The agent and the walls are placed on whole world units; the polygon    *)
(* points and the targets are in units of 1/S.                             *)

ConeWall == <<40, -30, 20, 100>>

\* no wall, one wall, and a second wall above the origin
ConeWallSets ==
    { << >>, <<ConeWall>>, <<ConeWall, <<-100, 60, 130, 10>> >> }

\* agent positions: left of the wall, on its left edge, right of it, above it
ConeSpots == { <<0, 0>>, <<40, 20>>, <<100, 20>>, <<50, 100>> }

\* facings: the four axes, a slant, and the zero facing of a patrol A = B
ConeFacings ==
    { <<U, 0>>, <<0, U>>, <<-U, 0>>, <<0, -U>>, <<600, 800>>, <<0, 0>> }

\* cone lengths: short of the wall, and the constructor's default
ConeLengths == { 30, DEFAULT_CONE }

\* distances from the agent to the target along a ray
ConeReaches == { 10, 25, 45, 200 }

\* the walls in units of 1/S
ScaleWalls(ws) ==
    [j \in 1..Len(ws) |-> <<ws[j][1] * S, ws[j][2] * S, ws[j][3] * S, ws[j][4] * S>>]

InitCone ==
    /\ variant \in KivyVariants
    /\ walls \in ConeWallSets
    /\ \E p \in ConeSpots : \E f \in ConeFacings : \E c \in ConeLengths :
           agent = [NoCall.agent EXCEPT !.x = p[1], !.y = p[2],
                                        !.ax = p[1], !.ay = p[2],
                                        !.bx = p[1], !.by = p[2],
                                        !.look_dirx = f[1], !.look_diry = f[2],
                                        !.fov_deg = LEVEL_FOV, !.cone_len = c]
    /\ ball = Ball(0, 0, 0)
    /\ last = NoCall
    /\ ticks = 0
    /\ shots = 0
    /\ game = NoGame

\* draw(): pts = a.compute_flashlight_polygon(self.walls)
DrawCone ==
    /\ last.op = "none"
    /\ last' = [NoCall EXCEPT !.op = "polygon",
                              !.pts = compute_flashlight_polygon(agent, walls, variant)]
    /\ UNCHANGED <<variant, walls, ball, agent, ticks, shots, game>>

\* the ball at distance k on ray i of the cone, and the visibility test
\* los_blocked(self.x, self.y, ball.x, ball.y, walls) of Agent.update
LookAlongRay(i, k) ==
    \E d \in {RayDir(agent, variant, i)} :
    \E t \in {<<agent.x * S + RoundDiv(d[1] * k * S, TRIG),
                agent.y * S + RoundDiv(d[2] * k * S, TRIG)>>} :
        /\ last.op = "polygon"
        /\ k <= agent.cone_len
        /\ ball' = Ball(t[1], t[2], 0)
        /\ last' = [last EXCEPT !.op = "los_on_ray", !.ray = i, !.reach = k,
                                !.fwd = los_blocked(agent.x * S, agent.y * S,
                                                    t[1], t[2], ScaleWalls(walls))]
        /\ UNCHANGED <<variant, walls, agent, ticks, shots, game>>

NextCone ==
    \/ DrawCone
    \/ \E i \in 0..ray_steps(variant) : \E k \in ConeReaches : LookAlongRay(i, k)

SpecCone == InitCone /\ [][NextCone]_vars

JustPolygon == last.op = "polygon"

\* point p lies on the boundary of rectangle w (both in units of 1/S)
OnBoundary(p, w) ==
    \/ /\ p[1] = w[1] \/ p[1] = w[1] + w[3]
       /\ w[2] <= p[2] /\ p[2] <= w[2] + w[4]
    \/ /\ p[2] = w[2] \/ p[2] = w[2] + w[4]
       /\ w[1] <= p[1] /\ p[1] <= w[1] + w[3]

\* the segment from o to p crosses the edge from a to b strictly inside both
ProperCrossing(o, p, a, b) ==
    /\ Opposite(Side(a, b, o), Side(a, b, p))
    /\ Opposite(Side(o, p, a), Side(o, p, b))

\* point p lies, to the rounding of a point, on the ray from o along d
AlongRay(o, p, d) ==
    /\ Abs((p[1] - o[1]) * d[2] - (p[2] - o[2]) * d[1]) <= TRIG
    /\ (p[1] - o[1]) * d[1] + (p[2] - o[2]) * d[2] >= 0

\* the facing of agent a turned by the angle of cosine c and sine sn
Turned(a, c, sn) ==
    LET lx == IF a.look_dirx = 0 /\ a.look_diry = 0 THEN U ELSE a.look_dirx
        ly == a.look_diry
    IN  <<RoundDiv(lx * c - ly * sn, U), RoundDiv(ly * c + lx * sn, U)>>

\* C24: compute_flashlight_polygon returns ray_steps + 1 points, the i-th on
\* the ray at angle (facing + fov_half) - i * (2 * fov_half / ray_steps), the
\* first at +fov_half and the last at -fov_half; each point is the nearest
\* hit of its ray over all the walls when that hit is within cone_len, and
\* the full-length endpoint otherwise; no point is farther than cone_len.
C24_FlashlightPolygon ==
    JustPolygon =>
        LET rs == ray_steps(variant)
            o == <<agent.x * S, agent.y * S>>
            ws == ScaleWalls(walls)
            reach == agent.cone_len * S
        IN  /\ Len(last.pts) = rs + 1
            /\ RayDir(agent, variant, 0) = Turned(agent, 8660, 5000)
            /\ RayDir(agent, variant, rs) = Turned(agent, 8660, -5000)
            /\ RayDir(agent, variant, rs \div 2) = Turned(agent, TRIG, 0)
            /\ \A i \in 0..rs :
                   LET pt == last.pts[i + 1]
                       d == RayDir(agent, variant, i)
                   IN  /\ AlongRay(o, pt, d)
                       /\ ConeD2(agent, pt) <= (reach + 1) * (reach + 1)
                       /\ \/ pt = RayTip(agent, variant, i)
                          \/ \E j \in 1..Len(ws) : OnBoundary(pt, ws[j])
                       /\ \A e \in WallEdges(ws) : ~ProperCrossing(o, pt, e[1], e[2])
                       /\ \A e \in WallEdges(ws) :
                              (OnEdge(o, e[1], e[2])
                                 /\ (e[2][1] - e[1][1]) * d[2] # (e[2][2] - e[1][2]) * d[1])
                                  => pt = o

\* a cone with a ray stopped by a wall, a ray that reaches its full length
\* past the wall, and a ray that passes the first wall and stops on the second
C24_Witness ==
    /\ JustPolygon /\ Len(walls) = 2
    /\ \E i \in 1..Len(last.pts) : \E k \in 1..Len(last.pts) : \E m \in 1..Len(last.pts) :
           /\ OnBoundary(last.pts[i], ScaleWalls(walls)[1])
           /\ OnBoundary(last.pts[m], ScaleWalls(walls)[2])
           /\ last.pts[k] = RayTip(agent, variant, k - 1)
           /\ ~OnBoundary(last.pts[k], ScaleWalls(walls)[1])
           /\ ~OnBoundary(last.pts[k], ScaleWalls(walls)[2])
           /\ last.pts[i] # <<agent.x * S, agent.y * S>>

JustLook == last.op = "los_on_ray"

\* C25: the light cone and the visibility test agree: for every agent
\* position, wall set and target on a sampled cone ray within cone_len, the
\* target is not blocked by los_blocked(agent, target, walls) if and only if
\* it is no farther from the agent than the polygon point of that ray,
\* also when the agent stands on a wall edge.  A target within the rounding
\* of a point (2/S) of the polygon point's distance is left undecided.
C25_ConeAgreesWithSight ==
    JustLook =>
        LET target == Sqrt(ConeD2(agent, <<ball.x, ball.y>>))
            lit == Sqrt(ConeD2(agent, last.pts[last.ray + 1]))
        IN  /\ target + 2 <= lit => ~last.fwd
            /\ target >= lit + 2 => last.fwd

---------------------------------------------------------------------------
(* seg_intersect on given end points                                       *)

\* the coordinates of the end points
SegCoords == 0..2

SegPoints == SegCoords \X SegCoords

\* the arguments p1, p2, p3, p4 of a call
InitSeg ==
    /\ variant = "fixed"
    /\ walls = << >>
    /\ ball = Ball(0, 0, 0)
    /\ agent = NoCall.agent
    /\ \E p1 \in SegPoints : \E p2 \in SegPoints :
       \E p3 \in SegPoints : \E p4 \in SegPoints :
           last = [NoCall EXCEPT !.op = "arguments", !.pts = <<p1, p2, p3, p4>>]
    /\ ticks = 0
    /\ shots = 0
    /\ game = NoGame

\* a call of seg_intersect(p1, p2, p3, p4)
SegQuery ==
    \E h \in {seg_intersect(last.pts[1], last.pts[2], last.pts[3], last.pts[4])} :
        /\ last.op = "arguments"
        /\ last' = [last EXCEPT !.op = "seg_intersect", !.seg = h,
                                !.at = seg_point(last.pts[1], last.pts[2], h)]
        /\ UNCHANGED <<variant, walls, ball, agent, ticks, shots, game>>

SpecSeg == InitSeg /\ [][SegQuery]_vars

JustSeg == last.op = "seg_intersect"

\* x and y lie weakly on opposite sides: not both strictly on the same side
NotSameSide(x, y) == ~(x > 0 /\ y > 0) /\ ~(x < 0 /\ y < 0)

\* the lines through p1, p2 and through p3, p4 have the same direction, or
\* one of the segments has no length
Parallel(p1, p2, p3, p4) ==
    (p2[1] - p1[1]) * (p4[2] - p3[2]) = (p2[2] - p1[2]) * (p4[1] - p3[1])

\* the point q / den lies on the segment from a to b
OnSegment(q, den, a, b) ==
    /\ Side(<<a[1] * den, a[2] * den>>, <<b[1] * den, b[2] * den>>, q) = 0
    /\ Min2(a[1], b[1]) * den <= q[1] /\ q[1] <= Max2(a[1], b[1]) * den
    /\ Min2(a[2], b[2]) * den <= q[2] /\ q[2] <= Max2(a[2], b[2]) * den

\* C26: seg_intersect reports a hit if and only if the determinant is not
\* (nearly) zero and both t and u lie in [0, 1]; on a hit the point returned
\* is p1 + t * (p2 - p1) and lies on both segments; for parallel or
\* degenerate input (collinear overlapping segments, segments of no length)
\* it returns (False, 0, 0, 0, 0).
C26_SegIntersect ==
    JustSeg =>
        LET p1 == last.pts[1]
            p2 == last.pts[2]
            p3 == last.pts[3]
            p4 == last.pts[4]
            h == last.seg
        IN  /\ h.hit <=> /\ ~Parallel(p1, p2, p3, p4)
                         /\ NotSameSide(Side(p1, p2, p3), Side(p1, p2, p4))
                         /\ NotSameSide(Side(p3, p4, p1), Side(p3, p4, p2))
            /\ h.hit => /\ h.den > 0
                        /\ 0 <= h.tn /\ h.tn <= h.den
                        /\ 0 <= h.un /\ h.un <= h.den
                        /\ last.at[1] = p1[1] * h.den + h.tn * (p2[1] - p1[1])
                        /\ last.at[2] = p1[2] * h.den + h.tn * (p2[2] - p1[2])
                        /\ last.at[1] = p3[1] * h.den + h.un * (p4[1] - p3[1])
                        /\ last.at[2] = p3[2] * h.den + h.un * (p4[2] - p3[2])
                        /\ OnSegment(last.at, h.den, p1, p2)
                        /\ OnSegment(last.at, h.den, p3, p4)
            /\ ~h.hit => /\ h.tn = 0 /\ h.un = 0
                         /\ last.at = <<0, 0>>

\* two segments that touch at an end point of each: a hit with t = 1, u = 0
C26_Witness ==
    /\ JustSeg /\ last.seg.hit
    /\ last.seg.tn = last.seg.den /\ last.seg.un = 0
    /\ last.pts[1] # last.pts[2] /\ last.pts[3] # last.pts[4]

---------------------------------------------------------------------------
(* The game: touches, shots and clock ticks on a level of one floor with   *)
(* one wall, a hole and at most one guard.  The pygame game has no guards. *)

\* number of clock ticks explored in the game
MaxGameTicks == 4

\* self.max_shot
MAX_SHOT == 1000

\* drop_total of the "loadlevel" variant, 1.2 s in sixtieths of a second
DROP_TOTAL == 72

\* a thick wall below the ball, or a thin one
GameWallSets == { <<RestWall>>, << <<0, 90 * S, 100 * S, 10 * S>> >> }

\* the ball starts 15 above the wall, clear of it
GameStart == <<50 * S, 115 * S>>

GameHole == <<130 * S, 115 * S, HOLE_RADIUS * S>>

\* no guard, one guard that starts on the hole and patrols upward, or one
\* that starts 25 to the right of the ball and patrols to the hole
GameAgentLists ==
    { << >>,
      << Agent(130 * S, 115 * S, 130 * S, 175 * S, DEFAULT_SPEED * S,
               LEVEL_FOV, DEFAULT_CONE * S) >>,
      << Agent(75 * S, 115 * S, 130 * S, 115 * S, DEFAULT_SPEED * S,
               LEVEL_FOV, DEFAULT_CONE * S) >> }

\* aim_start - aim_current: no drag, down beyond max_shot, right at max_shot,
\* a short drag to the right
Drags == { <<0, 0>>, <<0, -1500 * S>>, <<MAX_SHOT * S, 0>>, <<20 * S, 0>> }

\* where a touch lands: on the mode button, near the ball, elsewhere
TouchSpots == { "button", "ball", "away" }

InitGame ==
    /\ variant \in Variants
    /\ walls \in GameWallSets
    /\ ball = Ball(GameStart[1], GameStart[2], TestRadius * S)
    /\ \E as \in GameAgentLists :
           /\ variant = "pygame" => as = << >>
           /\ game = [NoGame EXCEPT !.start = GameStart, !.hole = GameHole,
                                    !.agents = as]
    /\ agent = NoCall.agent
    /\ last = NoCall
    /\ ticks = 0
    /\ shots = 0

\* the ball and the widget after _reset_to_start
ResetGame(b, g) ==
    [ball |-> [b EXCEPT !.x = g.start[1], !.y = g.start[2],
                        !.vx = 0, !.vy = 0, !.smoke_timer = 0],
     game |-> [g EXCEPT !.caught = FALSE, !.win = FALSE, !.drop_timer = 0,
                        !.agents = [i \in DOMAIN g.agents |-> ResetAgent(g.agents[i])]]]

\* on_touch_down of the kivy games (no level file follows the level), and
\* the MOUSEBUTTONDOWN branches of the pygame loop
TouchDown(spot) ==
    /\ IF variant = "pygame"
       THEN IF game.win
            THEN /\ ball' = Ball(game.start[1], game.start[2], ball.r)
                 /\ game' = [game EXCEPT !.win = FALSE]
            ELSE IF ~ball.in_motion
                 THEN /\ game' = [game EXCEPT !.aiming = TRUE, !.drag = <<0, 0>>]
                      /\ ball' = ball
                 ELSE UNCHANGED <<ball, game>>
       ELSE IF game.caught \/ game.win
            THEN IF variant = "fixed" \/ ~game.win \/ game.drop_timer <= 0
                 THEN /\ ball' = ResetGame(ball, game).ball
                      /\ game' = ResetGame(ball, game).game
                 ELSE UNCHANGED <<ball, game>>
            ELSE IF spot = "button"
                 THEN /\ game' = [game EXCEPT !.smoke_mode = ~game.smoke_mode]
                      /\ ball' = ball
                 ELSE IF spot = "ball" /\ ~ball.in_motion
                      THEN /\ game' = [game EXCEPT !.aiming = TRUE, !.drag = <<0, 0>>]
                           /\ ball' = ball
                      ELSE UNCHANGED <<ball, game>>
    /\ last' = [NoCall EXCEPT !.op = "touch_down", !.ball = ball]
    /\ UNCHANGED <<variant, walls, agent, ticks, shots>>

\* on_touch_move, and the MOUSEMOTION branch of the pygame loop
TouchMove(d) ==
    /\ game.aiming
    /\ game' = [game EXCEPT !.drag = d]
    /\ last' = [NoCall EXCEPT !.op = "touch_move", !.ball = ball]
    /\ UNCHANGED <<variant, walls, ball, agent, ticks, shots>>

\* the impulse of a shot with drag d: the kivy games cap the drag at
\* max_shot and multiply by 1.90, the pygame game multiplies by 3.0
ShotImpulse(d, v) ==
    LET n == normalize(d[1], d[2])
        c == IF length(d[1], d[2]) > MAX_SHOT * S
             THEN <<MulU(MAX_SHOT * S, n[1]), MulU(MAX_SHOT * S, n[2])>>
             ELSE d
    IN  IF v = "pygame" THEN <<3 * d[1], 3 * d[2]>>
        ELSE <<RoundDiv(c[1] * 19, 10), RoundDiv(c[2] * 19, 10)>>

\* on_touch_up, and the MOUSEBUTTONUP branch of the pygame loop, which takes
\* the drag from the position of the release
TouchUp(d) ==
    \E i \in {ShotImpulse(d, variant)} :
        /\ game.aiming
        /\ shots < MaxShots
        /\ variant # "pygame" => d = game.drag
        /\ ball' = IF variant # "pygame" /\ game.smoke_mode
                   THEN [apply_impulse(ball, i[1], i[2], variant)
                            EXCEPT !.smoke_timer = SMOKE_TIME]
                   ELSE apply_impulse(ball, i[1], i[2], variant)
        /\ game' = [game EXCEPT !.aiming = FALSE]
        /\ last' = [NoCall EXCEPT !.op = "touch_up", !.ix = i[1], !.iy = i[2],
                                  !.ball = ball]
        /\ shots' = shots + 1
        /\ UNCHANGED <<variant, walls, agent, ticks>>

\* the ball and the widget after the body of StealthGolf.update(dt) of the
\* kivy games: the drop after a win counts down; otherwise the ball is
\* updated, then every agent, then the hole is tested
KivyUpdate(b, g, dt, ws, v) ==
    CHOOSE r \in
        { IF g.drop_timer > 0
          THEN [ball |-> b,
                game |-> [g EXCEPT !.drop_timer = Max2(0, g.drop_timer - dt)]]
          ELSE LET inHole == /\ ~g.win
                             /\ length(run.ball.x - g.hole[1], run.ball.y - g.hole[2])
                                    <= g.hole[3] - 2 * S
               IN  [ball |-> IF inHole
                             THEN [run.ball EXCEPT !.vx = 0, !.vy = 0,
                                                   !.in_motion = FALSE]
                             ELSE run.ball,
                    game |-> [g EXCEPT !.agents = run.agents,
                                       !.caught = run.caught,
                                       !.win = g.win \/ inHole,
                                       !.drop_timer =
                                           IF inHole
                                           THEN (IF v = "loadlevel" THEN DROP_TOTAL
                                                 ELSE DROP_TIME)
                                           ELSE g.drop_timer]] :
              run \in {RunAgents(g.agents, ListOrder(g.agents), 1, dt,
                                 Ball_update(b, dt, ws, v), ws, g.caught, g.win)} } : TRUE

\* the ball and the flags after the body of the pygame loop below the
\* events: ball.update, then the hole test
PygameUpdate(b, g, dt, ws) ==
    CHOOSE r \in
        { [ball |-> b1,
           game |-> [g EXCEPT !.win = g.win \/
                        (length(b1.x - g.hole[1], b1.y - g.hole[2]) <= b1.r + g.hole[3])]] :
              b1 \in {Ball_update(b, dt, ws, "pygame")} } : TRUE

\* one clock tick of the game
GameTick(dt) ==
    \E r \in {IF variant = "pygame" THEN PygameUpdate(ball, game, dt, walls)
               ELSE KivyUpdate(ball, game, dt, walls, variant)} :
        /\ ticks < MaxGameTicks
        /\ ticks' = ticks + 1
        /\ ball' = r.ball
        /\ game' = r.game
        /\ last' = [NoCall EXCEPT !.op = "game_tick", !.dt = dt, !.ball = ball,
                                  !.fwd = (variant = "pygame" \/ game.drop_timer <= 0),
                                  !.mid = Ball_update(ball, dt, walls, variant)]
        /\ UNCHANGED <<variant, walls, agent, shots>>

NextGame ==
    \/ \E spot \in TouchSpots : TouchDown(spot)
    \/ \E d \in Drags : TouchMove(d)
    \/ \E d \in Drags : TouchUp(d)
    \/ GameTick(FixedDt)

SpecGame == InitGame /\ [][NextGame]_vars

JustGameTick == last.op = "game_tick"

\* the tick has called Ball.update (no drop was running); last.mid is the
\* ball as that call left it
JustGameBallUpdate == JustGameTick /\ last.fwd

\* C27: in every reachable state of the game (construction, shots, updates,
\* winning, _reset_to_start) in_motion = false implies velocity = (0, 0);
\* and right after any Ball.update, velocity = (0, 0) implies in_motion =
\* false.
C27_RestInvariant ==
    /\ ~ball.in_motion => (ball.vx = 0 /\ ball.vy = 0)
    /\ JustGameBallUpdate =>
           /\ ~last.mid.in_motion => (last.mid.vx = 0 /\ last.mid.vy = 0)
           /\ (last.mid.vx = 0 /\ last.mid.vy = 0) => ~last.mid.in_motion

\* a Ball.update that stops a ball which was rolling after a shot
C27_Witness ==
    /\ JustGameBallUpdate /\ shots > 0
    /\ last.ball.in_motion /\ (last.ball.vx # 0 \/ last.ball.vy # 0)
    /\ ~ball.in_motion /\ ball.vx = 0 /\ ball.vy = 0
    /\ ~game.win

\* the centre (x, y) lies strictly inside the rectangle
CentreInside(b, rect) ==
    /\ rect[1] < b.x /\ b.x < rect[1] + rect[3]
    /\ rect[2] < b.y /\ b.y < rect[2] + rect[4]

\* the ball was in front of one face of the rectangle and is now behind the
\* opposite face
FarSide(before, after, rect) ==
    \/ /\ rect[1] <= before.x /\ before.x <= rect[1] + rect[3]
       /\ rect[1] <= after.x /\ after.x <= rect[1] + rect[3]
       /\ \/ before.y >= rect[2] + rect[4] /\ after.y <= rect[2]
          \/ before.y <= rect[2] /\ after.y >= rect[2] + rect[4]
    \/ /\ rect[2] <= before.y /\ before.y <= rect[2] + rect[4]
       /\ rect[2] <= after.y /\ after.y <= rect[2] + rect[4]
       /\ \/ before.x >= rect[1] + rect[3] /\ after.x <= rect[1]
          \/ before.x <= rect[1] /\ after.x >= rect[1] + rect[3]

\* C29: in the kivy games, from a ball that overlaps no wall, with shots of
\* at most max_shot * 1.90 and ticks of 1/60 s, the ball never ends a tick
\* with its centre inside a wall rectangle and never ends a tick on the far
\* side of a wall it was in front of.
C29_NoTunnelling ==
    (variant \in KivyVariants /\ JustGameBallUpdate) =>
        \A i \in 1..Len(walls) :
            /\ ~CentreInside(last.mid, walls[i])
            /\ ~FarSide(last.ball, last.mid, walls[i])

\* C30: in both kivy games win and caught are mutually exclusive: a guard's
\* catch is ignored once win is set, and a tick that sets win does not also
\* set caught, so no reachable state has both flags.
C30_WinCaughtExclusive ==
    variant \in KivyVariants => ~(game.win /\ game.caught)

====
